---- MODULE Spec2Model ----
(***************************************************************************)
(* Token lifecycle and authenticated-request protocol of anythingllm_auth: *)
(* TokenManager, AuthClient (blocking) and AsyncAuthClient (non-blocking)  *)
(* of anythingllm_auth/auth.py, and the expiry oracle is_token_expired of  *)
(* anythingllm_auth/utils.py.                                              *)
(*                                                                         *)
(* One client object is modelled.  Every public operation runs in a task;  *)
(* a task stops at each network call (the call is in flight) and goes on   *)
(* when the answer arrives.  The answer of the transport is an input: a    *)
(* response (status and, for login and refresh, the JSON object of the     *)
(* body) or a transport fault.  Everything a handler does between two      *)
(* network calls is one step.                                              *)
(*                                                                         *)
(* Spec is one caller using the token operations of either client.         *)
(* SpecSession adds close and the 'async with' block, SpecConcurrent runs   *)
(* two coroutines on one non-blocking client, SpecConfig constructs a      *)
(* Config and builds URLs with it, SpecOracle calls is_token_expired on    *)
(* its own.  SpecRetry runs the retry helpers of utils.py, SpecRotating    *)
(* runs two coroutines against a server with single-use refresh values,    *)
(* SpecRelogin logs in on a client that holds a pair already, and          *)
(* SpecAnswered is Spec with every call of a request answered in the end.  *)
(***************************************************************************)
EXTENDS Integers, Sequences, FiniteSets

VARIABLES
    mode,       \* "sync": AuthClient, "async": AsyncAuthClient
    callers,    \* the tasks that call the client
    buffer,     \* config.token_expiry_buffer
    now,        \* time.time()
    token,      \* TokenManager._token
    refresh,    \* TokenManager._refresh_token
    op,         \* op[t]: the public operation task t runs
    pc,         \* pc[t]: the network call task t waits for, or "idle", "done"
    tok,        \* tok[t]: the local variable token of make_authenticated_request
    log,        \* log[t]: what the operation has done so far, in order
    outcome,    \* outcome[t]: what the caller gets: a value or a raised error
    config,     \* the Config object: base_url, api_prefix, timeout
    session,    \* client.session: the session object, NoSession for None
    unclosed,   \* the session objects the client created and has not closed
    req,        \* req[t]: method, endpoint, headers and options of the request
    sent,       \* sent[t]: the calls the operation handed to a session, in order
    blocks,     \* how many 'async with client' blocks are entered and not left
    retry,      \* the frame of wrapper / async_retry_with_backoff, NoRetry if none
    server      \* what the server behind the refresh endpoint remembers

vars == <<mode, callers, buffer, now, token, refresh, op, pc, tok, log, outcome,
          config, session, unclosed, req, sent, blocks, retry, server>>

--------------------------------------------------------------------------
(* Bounds of the model *)

MaxTime == 2        \* the clock runs from 0 to MaxTime
MaxExp == 3         \* exp claims of issued tokens are 1..MaxExp
MaxBuffer == 1      \* token_expiry_buffer is 0..MaxBuffer
MaxSegs == 4        \* texts handed to the oracle have 1..MaxSegs segments
MaxSessions == 3    \* session objects alive at a time are 1..MaxSessions
MaxBlocks == 1      \* 'async with client' blocks are nested at most MaxBlocks deep
MaxUrlLen == 4      \* a base_url has at most MaxUrlLen characters after its scheme
MaxPathLen == 3     \* an api_prefix and an endpoint have at most MaxPathLen characters
MaxTimeout == 1     \* the timeout handed to Config is -1..MaxTimeout
MaxRetries == 2     \* max_retries handed to the retry helpers is -1..MaxRetries
MaxDelay == 2       \* delay is -1..MaxDelay
MaxBackoff == 2     \* backoff is -1..MaxBackoff
MaxRotations == 3   \* a rotating server hands out at most MaxRotations new refresh values

Tasks == {"t1", "t2"}

Modes == {"sync", "async"}

--------------------------------------------------------------------------
(* Values *)

\* Python's None, for the stored refresh value and a null refreshToken
None == "None"
\* the key is not in the JSON object of the body
Absent == "absent"

\* An access token is the text the server sent, seen as the oracle sees it:
\* kind "None" is Python's None, "empty" the empty string, "text" a
\* non-empty string with segs = len(token.split('.')); claims says what the
\* middle segment decodes to and exp is the exp claim when it is a number.
\* claims is one of:
\*   "undecodable"  urlsafe_b64decode raises (binascii.Error); the decoder
\*                  drops characters outside the alphabet, so this is a
\*                  payload whose padding is wrong after that
\*   "notjson"      the bytes are not JSON text (json.loads raises)
\*   "notmap"       JSON, but not an object: no .get (AttributeError)
\*   "noexp"        an object without the key exp
\*   "nullexp"      an object whose exp is null
\*   "strexp"       an object whose exp is a non-empty string
\*   "boolexp"      an object whose exp is true or false; Python reads them
\*                  as the integers 1 and 0
\*   "numexp"       an object whose exp is a number
NoToken == [kind |-> "None", segs |-> 0, claims |-> "undecodable", exp |-> 0]
EmptyToken == [kind |-> "empty", segs |-> 1, claims |-> "undecodable", exp |-> 0]
OpaqueToken == [kind |-> "text", segs |-> 1, claims |-> "undecodable", exp |-> 0]
JWT(e) == [kind |-> "text", segs |-> 3, claims |-> "numexp", exp |-> e]

IssuedTokens == {OpaqueToken} \cup {JWT(e) : e \in 1..MaxExp}
\* what data.get("token") can be
BodyTokens == {NoToken, EmptyToken} \cup IssuedTokens
\* what the refreshToken key of a body can be
BodyRefresh == {Absent, None, "", "r1", "r2"}

Statuses == {200, 401, 500}

\* Python truthiness of a token (None and "" are falsy)
Truthy(t) == t.kind = "text"
\* Python truthiness of a refresh value
TruthyStr(s) == s # None /\ s # ""

--------------------------------------------------------------------------
(* What the transport hands back for one network call *)

Faults == {"connection", "timeout"}

Fault(f) == [fault |-> f, status |-> 0, token |-> NoToken, refreshToken |-> Absent]
Response(s, t, r) == [fault |-> "none", status |-> s, token |-> t, refreshToken |-> r]

\* answers of the login and the refresh endpoint: a fault, a status other
\* than 200 (the body is not read), or 200 with a JSON object (a 200 whose
\* body is not a JSON object is outside the model)
TokenAnswers ==
    {Fault(f) : f \in Faults}
    \cup {Response(s, NoToken, Absent) : s \in Statuses \ {200}}
    \cup {Response(200, t, r) : t \in BodyTokens, r \in BodyRefresh}

\* answers of the target endpoint: a fault or any status
TargetAnswers ==
    {Fault(f) : f \in Faults} \cup {Response(s, NoToken, Absent) : s \in Statuses}

--------------------------------------------------------------------------
(* The server behind the refresh endpoint.  The answers are inputs and the *)
(* server is not looked at, except where a server with single-use refresh  *)
(* values is assumed: that server accepts only the refresh value it handed *)
(* out last and hands out a new one with every refresh it accepts.         *)

\* a server of which nothing is assumed
NoServer == [rotating |-> FALSE, rotations |-> 0]

\* a server with single-use refresh values that has rotated n times
RotatingServer(n) == [rotating |-> TRUE, rotations |-> n]

\* the refresh values of the rotating server in the order it hands them out
RotatingValues == <<"r1", "r2", "r3", "r4", "r5", "r6">>

\* the one refresh value the rotating server accepts
ServerRefreshValue(srv) == RotatingValues[srv.rotations + 1]

\* POST refresh with {"refreshToken": r} at the rotating server
ServerRefresh(srv, r) ==
    IF r = ServerRefreshValue(srv)
    THEN Response(200, JWT(MaxExp), RotatingValues[srv.rotations + 2])
    ELSE Response(401, NoToken, Absent)

\* the server after it has given answer a to a refresh call
Served(srv, a) ==
    IF srv.rotating /\ a.fault = "none" /\ a.status = 200
    THEN [srv EXCEPT !.rotations = @ + 1]
    ELSE srv

\* the access tokens the server accepts at a given time: the tokens it
\* issued that have not reached their exp
ServerAccepts(x, time) == x.kind = "text" /\ x.claims = "numexp" /\ x.exp > time

\* a target call that carries access token x
ServerTarget(x, time) ==
    Response(IF ServerAccepts(x, time) THEN 200 ELSE 401, NoToken, Absent)

--------------------------------------------------------------------------
(* What the caller gets *)

NoOutcome ==
    [kind |-> "none", err |-> "", msg |-> "", status |-> 0, token |-> NoToken,
     flag |-> FALSE, text |-> <<>>]
Raise(e, m, s) ==
    [kind |-> "raise", err |-> e, msg |-> m, status |-> s, token |-> NoToken,
     flag |-> FALSE, text |-> <<>>]
ReturnToken(t) ==
    [kind |-> "token", err |-> "", msg |-> "", status |-> 0, token |-> t,
     flag |-> FALSE, text |-> <<>>]
ReturnResponse(s) ==
    [kind |-> "response", err |-> "", msg |-> "", status |-> s, token |-> NoToken,
     flag |-> FALSE, text |-> <<>>]
\* validate_token returns the boolean b
ReturnBool(b) ==
    [kind |-> "bool", err |-> "", msg |-> "", status |-> 0, token |-> NoToken,
     flag |-> b, text |-> <<>>]
\* get_full_url returns the text s
ReturnText(s) ==
    [kind |-> "text", err |-> "", msg |-> "", status |-> 0, token |-> NoToken,
     flag |-> FALSE, text |-> s]
\* a coroutine or method without a return value has run to its end
ReturnNone ==
    [kind |-> "None", err |-> "", msg |-> "", status |-> 0, token |-> NoToken,
     flag |-> FALSE, text |-> <<>>]

\* except requests.RequestException (blocking) catches every fault of
\* requests; except aiohttp.ClientError (non-blocking) does not catch the
\* asyncio.TimeoutError that aiohttp raises when ClientTimeout(total) runs out
TransportCaught(m, f) == m = "sync" \/ f = "connection"

\* a fault during a network call whose handler wraps faults in APIError(msg)
OnFault(m, f, msg) ==
    IF TransportCaught(m, f) THEN Raise("APIError", msg, 0)
    ELSE Raise("TimeoutError", "", 0)

--------------------------------------------------------------------------
(* utils.is_token_expired *)

\* the try block: the value returned, or the exception raised in it
is_token_expired_try_strict(t, buffer_seconds, current_time) ==
    IF t.kind = "None" THEN Raise("AttributeError", "", 0)
    ELSE IF t.segs # 3 THEN ReturnBool(TRUE)
    ELSE IF t.claims = "undecodable" THEN Raise("binascii.Error", "", 0)
    ELSE IF t.claims = "notjson" THEN Raise("ValueError", "", 0)
    ELSE IF t.claims = "notmap" THEN Raise("AttributeError", "", 0)
    ELSE IF t.claims \in {"noexp", "nullexp"} THEN ReturnBool(TRUE)
    ELSE IF t.claims = "strexp" THEN Raise("TypeError", "", 0)
    ELSE IF t.exp = 0 THEN ReturnBool(TRUE)
    ELSE ReturnBool(current_time + buffer_seconds > t.exp)

is_token_expired_try(t, buffer_seconds, current_time) ==
    \* token.split('.') of None
    IF t.kind = "None" THEN Raise("AttributeError", "", 0)
    \* if len(parts) != 3: return True
    ELSE IF t.segs # 3 THEN ReturnBool(TRUE)
    \* base64.urlsafe_b64decode(payload)
    ELSE IF t.claims = "undecodable" THEN Raise("binascii.Error", "", 0)
    \* json.loads(decoded): JSONDecodeError, UnicodeDecodeError
    ELSE IF t.claims = "notjson" THEN Raise("ValueError", "", 0)
    \* payload_data.get('exp')
    ELSE IF t.claims = "notmap" THEN Raise("AttributeError", "", 0)
    \* if not exp: return True
    ELSE IF t.claims \in {"noexp", "nullexp"} THEN ReturnBool(TRUE)
    \* current_time + buffer_seconds >= "..."
    ELSE IF t.claims = "strexp" THEN Raise("TypeError", "", 0)
    \* if not exp: return True, for 0 and false
    ELSE IF t.exp = 0 THEN ReturnBool(TRUE)
    ELSE ReturnBool(current_time + buffer_seconds >= t.exp)

\* a handler for decoding errors only: binascii.Error and the errors of
\* json.loads are ValueErrors
is_token_expired_except_ValueError(out) ==
    IF out.kind = "raise" /\ out.err \in {"binascii.Error", "ValueError"}
    THEN ReturnBool(TRUE)
    ELSE out

\* except Exception: return True
is_token_expired_except(out) ==
    IF out.kind = "raise" THEN ReturnBool(TRUE) ELSE out

\* what a call of is_token_expired gives its caller
is_token_expired_outcome(t, buffer_seconds, current_time) ==
    is_token_expired_except(is_token_expired_try(t, buffer_seconds, current_time))

is_token_expired(t, buffer_seconds, current_time) ==
    is_token_expired_outcome(t, buffer_seconds, current_time) = ReturnBool(TRUE)

\* the oracle asked with no buffer at all
TM_is_token_expired_no_buffer(t, buf, time) ==
    IF ~Truthy(t) THEN TRUE ELSE is_token_expired(t, 0, time)

\* TokenManager.is_token_expired
TM_is_token_expired(t, buf, time) ==
    IF ~Truthy(t) THEN TRUE ELSE is_token_expired(t, buf, time)

\* TokenManager.is_authenticated
TM_is_authenticated(t, buf, time) ==
    t # NoToken /\ ~TM_is_token_expired(t, buf, time)

--------------------------------------------------------------------------
(* TokenManager.set_tokens: the pair is replaced wholesale *)

set_tokens(t, r) == [token |-> t, refresh |-> r]

\* the pair left as it is
Kept(tk, rf) == [token |-> tk, refresh |-> rf]

--------------------------------------------------------------------------
(* authenticate, from the answer of the login call on: the outcome and the  *)
(* stored pair afterwards                                                  *)

\* the refresh value of the session before kept when the body has none
authenticate_response_keeps_refresh(m, a, tk, rf) ==
    IF a.fault # "none"
    THEN [out |-> OnFault(m, a.fault, "Failed to authenticate"), store |-> Kept(tk, rf)]
    ELSE IF a.status = 200
    THEN IF ~Truthy(a.token)
         THEN [out |-> Raise("AuthenticationError", "No token received in response", 0),
               store |-> Kept(tk, rf)]
         ELSE [out |-> ReturnToken(a.token),
               store |-> set_tokens(a.token,
                            IF a.refreshToken = Absent THEN rf ELSE a.refreshToken)]
    ELSE IF a.status = 401
    THEN [out |-> Raise("AuthenticationError", "Invalid username or password", 0),
          store |-> Kept(tk, rf)]
    ELSE [out |-> Raise("APIError", "Authentication failed with status", a.status),
          store |-> Kept(tk, rf)]

\* set_tokens called before the token of the body is looked at
authenticate_response_stores_first(m, a, tk, rf) ==
    IF a.fault # "none"
    THEN [out |-> OnFault(m, a.fault, "Failed to authenticate"), store |-> Kept(tk, rf)]
    ELSE IF a.status = 200
    THEN [out |-> IF ~Truthy(a.token)
                  THEN Raise("AuthenticationError", "No token received in response", 0)
                  ELSE ReturnToken(a.token),
          store |-> set_tokens(a.token,
                       IF a.refreshToken = Absent THEN None ELSE a.refreshToken)]
    ELSE IF a.status = 401
    THEN [out |-> Raise("AuthenticationError", "Invalid username or password", 0),
          store |-> Kept(tk, rf)]
    ELSE [out |-> Raise("APIError", "Authentication failed with status", a.status),
          store |-> Kept(tk, rf)]

authenticate_response(m, a, tk, rf) ==
    IF a.fault # "none"
    THEN [out |-> OnFault(m, a.fault, "Failed to authenticate"), store |-> Kept(tk, rf)]
    ELSE IF a.status = 200
    THEN IF ~Truthy(a.token)
         THEN [out |-> Raise("AuthenticationError", "No token received in response", 0),
               store |-> Kept(tk, rf)]
         ELSE [out |-> ReturnToken(a.token),
               store |-> set_tokens(a.token,
                            IF a.refreshToken = Absent THEN None ELSE a.refreshToken)]
    ELSE IF a.status = 401
    THEN [out |-> Raise("AuthenticationError", "Invalid username or password", 0),
          store |-> Kept(tk, rf)]
    ELSE [out |-> Raise("APIError", "Authentication failed with status", a.status),
          store |-> Kept(tk, rf)]

(* refresh_token, from the answer of the refresh call on; rf is the stored  *)
(* refresh value when the answer is handled                                 *)

\* the refresh value dropped when the body has none, as authenticate does
refresh_response_drops_refresh(m, a, tk, rf) ==
    IF a.fault # "none"
    THEN [out |-> OnFault(m, a.fault, "Failed to refresh token"), store |-> Kept(tk, rf)]
    ELSE IF a.status = 200
    THEN IF ~Truthy(a.token)
         THEN [out |-> Raise("AuthenticationError", "No token received in refresh response", 0),
               store |-> Kept(tk, rf)]
         ELSE [out |-> ReturnToken(a.token),
               store |-> set_tokens(a.token,
                            IF a.refreshToken = Absent THEN None ELSE a.refreshToken)]
    ELSE IF a.status = 401
    THEN [out |-> Raise("AuthenticationError", "Refresh token expired or invalid", 0),
          store |-> Kept(tk, rf)]
    ELSE [out |-> Raise("APIError", "Token refresh failed with status", a.status),
          store |-> Kept(tk, rf)]

refresh_response(m, a, tk, rf) ==
    IF a.fault # "none"
    THEN [out |-> OnFault(m, a.fault, "Failed to refresh token"), store |-> Kept(tk, rf)]
    ELSE IF a.status = 200
    THEN IF ~Truthy(a.token)
         THEN [out |-> Raise("AuthenticationError", "No token received in refresh response", 0),
               store |-> Kept(tk, rf)]
         ELSE [out |-> ReturnToken(a.token),
               store |-> set_tokens(a.token,
                            IF a.refreshToken = Absent THEN rf ELSE a.refreshToken)]
    ELSE IF a.status = 401
    THEN [out |-> Raise("AuthenticationError", "Refresh token expired or invalid", 0),
          store |-> Kept(tk, rf)]
    ELSE [out |-> Raise("APIError", "Token refresh failed with status", a.status),
          store |-> Kept(tk, rf)]

\* refresh_token before any network call: no refresh value stored
NoRefreshToken == Raise("AuthenticationError", "No refresh token available", 0)

\* ensure_valid_token: try: return self.refresh_token()
\*                     except AuthenticationError: raise AuthenticationError(...)
ensure_except(out) ==
    IF out.kind = "raise" /\ out.err = "AuthenticationError"
    THEN Raise("AuthenticationError", "Token expired and refresh failed", 0)
    ELSE out

\* make_authenticated_request: the inner except AuthenticationError around
\* the refresh and the retry; the outer except catches transport faults only
retry_except(out) ==
    IF out.kind = "raise" /\ out.err = "AuthenticationError"
    THEN Raise("AuthenticationError", "Authentication expired", 0)
    ELSE out

\* a retry on every status that is not a success
IsRejected_non200(status) == status # 200

\* if response.status_code == 401
IsRejected(status) == status = 401

--------------------------------------------------------------------------
(* The log of one operation *)

Ev(e) == [ev |-> e, status |-> 0]
EvStatus(e, s) == [ev |-> e, status |-> s]

\* how many entries of l are the event e
RECURSIVE Count(_, _)
Count(l, e) ==
    IF l = <<>> THEN 0
    ELSE (IF Head(l).ev = e THEN 1 ELSE 0) + Count(Tail(l), e)

\* the position of the n-th entry e of l, 0 if there is none
RECURSIVE PosFrom(_, _, _, _)
PosFrom(l, e, n, i) ==
    IF i > Len(l) THEN 0
    ELSE IF l[i].ev = e
         THEN IF n = 1 THEN i ELSE PosFrom(l, e, n - 1, i + 1)
         ELSE PosFrom(l, e, n, i + 1)
Pos(l, e, n) == PosFrom(l, e, n, 1)

--------------------------------------------------------------------------
(* Sessions: requests.Session of AuthClient, aiohttp.ClientSession of      *)
(* AsyncAuthClient                                                         *)

\* self.session is None
NoSession == 0
SessionIds == 1..MaxSessions

\* a session object that is not alive: neither unclosed nor referenced
CanCreate(s, u) == \E n \in SessionIds : n \notin u \cup {s}
NewSession(s, u) == CHOOSE n \in SessionIds : n \notin u \cup {s}

\* AuthClient.__init__ creates the session; AsyncAuthClient.__init__ sets None
InitialSession(m) == IF m = "sync" THEN 1 ELSE NoSession
InitialUnclosed(m) == IF m = "sync" THEN {1} ELSE {}

\* AsyncAuthClient._get_session: if not self.session: self.session = ...;
\* AuthClient uses self.session as it is
get_session(m, s, u) ==
    IF m = "async" /\ s = NoSession
    THEN [session |-> NewSession(s, u), unclosed |-> u \cup {NewSession(s, u)}]
    ELSE [session |-> s, unclosed |-> u]

\* aiohttp refuses a request on a closed ClientSession; a closed
\* requests.Session opens its connections again
SessionIsClosed(m, s, u) == m = "async" /\ s \notin u
RaiseSessionIsClosed == Raise("RuntimeError", "Session is closed", 0)

--------------------------------------------------------------------------
(* Requests as the transport sees them *)

\* config.token_prefix
TokenPrefix == "Bearer"

\* a header value; AbsentHeader: the header is not in the dict
AbsentHeader == [prefix |-> "absent", token |-> NoToken]
CallerHeader == [prefix |-> "caller", token |-> NoToken]
\* utils.format_auth_header: f"{prefix} {token}"
format_auth_header(t, prefix) == [prefix |-> prefix, token |-> t]

\* method, endpoint, the header config.token_header, and the caller's other
\* header and options
Request(m, e, a, o) == [method |-> m, endpoint |-> e, auth |-> a, other |-> o]
NoRequest == Request("", "", AbsentHeader, Absent)
LoginRequest == Request("POST", "login", AbsentHeader, Absent)
\* json = {"refreshToken": r}
RefreshRequest(r) == Request("POST", "refresh", AbsentHeader, r)
ValidateRequest(c) ==
    Request("GET", "validate", format_auth_header(c, TokenPrefix), Absent)

\* what a caller hands to make_authenticated_request: no headers at all, or
\* a header of its own together with its own value for config.token_header
CallerRequests ==
    {Request("GET", "e1", AbsentHeader, Absent),
     Request("POST", "e2", CallerHeader, "x")}

\* headers.setdefault(...): a header that is there already is left alone
SetAuthHeader_setdefault(r, t) ==
    IF r.auth = AbsentHeader
    THEN [r EXCEPT !.auth = format_auth_header(t, TokenPrefix)]
    ELSE r

\* headers[self.config.token_header] = format_auth_header(token, prefix)
SetAuthHeader(r, t) == [r EXCEPT !.auth = format_auth_header(t, TokenPrefix)]

\* one call handed to session s
Call(c, s, r) == [call |-> c, session |-> s, request |-> r]

\* the session of the first target dispatch: the local variable session of
\* the non-blocking make_authenticated_request
LocalSession(l) == SelectSeq(l, LAMBDA x : x.call = "dispatch")[1].session

--------------------------------------------------------------------------
(* utils.retry_with_backoff and utils.async_retry_with_backoff             *)

\* no call of a retry helper
NoRetry ==
    [state |-> "none", max_retries |-> 0, delay |-> 0, backoff |-> 0,
     attempt |-> 0, current_delay |-> 0, results |-> <<>>, sleeps |-> <<>>]

\* retry_with_backoff(func, max_retries, delay, backoff), not called yet
RetryArgs(n, d, b) ==
    [state |-> "args", max_retries |-> n, delay |-> d, backoff |-> b,
     attempt |-> 0, current_delay |-> 0, results |-> <<>>, sleeps |-> <<>>]

\* what one invocation of the wrapped function can do: return a value
\* (None included), raise an Exception, raise a BaseException that is not an
\* Exception
FuncOutcomes ==
    {ReturnNone, ReturnBool(TRUE), Raise("ValueError", "", 0), Raise("KeyError", "", 0),
     Raise("KeyboardInterrupt", "", 0)}

\* except Exception
IsException(r) == r.kind = "raise" /\ r.err # "KeyboardInterrupt"

\* time.sleep(d) raises ValueError for a negative d; asyncio.sleep(d) returns
\* at once for d <= 0
SleepRaises(m, d) == m = "sync" /\ d < 0

\* current_delay = delay; for attempt in range(max_retries + 1):
retry_enter(f) ==
    [f EXCEPT !.state = IF f.max_retries + 1 > 0 THEN "running" ELSE "done",
              !.attempt = 0, !.current_delay = f.delay,
              !.results = <<>>, !.sleeps = <<>>]

\* the body of the loop after the invocation of func has ended with r, but
\* with a delay that is never multiplied
retry_step_fixed_delay(m, f, r) ==
    LET g == [f EXCEPT !.results = Append(@, r)] IN
    IF ~IsException(r) \/ f.attempt = f.max_retries
    THEN [frame |-> [g EXCEPT !.state = "done"], out |-> r]
    ELSE IF SleepRaises(m, f.current_delay)
    THEN [frame |-> [g EXCEPT !.state = "done"],
          out |-> Raise("ValueError", "sleep length must be non-negative", 0)]
    ELSE [frame |-> [g EXCEPT !.sleeps = Append(@, f.current_delay),
                              !.attempt = @ + 1],
          out |-> NoOutcome]

\* the body of the loop after the invocation of func has ended with r:
\* return func(...) / except Exception: if attempt == max_retries: raise /
\* sleep(current_delay); current_delay *= backoff
retry_step(m, f, r) ==
    LET g == [f EXCEPT !.results = Append(@, r)] IN
    IF ~IsException(r) \/ f.attempt = f.max_retries
    THEN [frame |-> [g EXCEPT !.state = "done"], out |-> r]
    ELSE IF SleepRaises(m, f.current_delay)
    THEN [frame |-> [g EXCEPT !.state = "done"],
          out |-> Raise("ValueError", "sleep length must be non-negative", 0)]
    ELSE [frame |-> [g EXCEPT !.sleeps = Append(@, f.current_delay),
                              !.current_delay = @ * f.backoff,
                              !.attempt = @ + 1],
          out |-> NoOutcome]

--------------------------------------------------------------------------
(* The state after construction: TokenManager.__init__ *)

\* the client is used by one caller, which makes one call at a time
MainTask == "t1"

\* Config(): texts are sequences of characters; "http:" stands for the five
\* characters h t t p : taken together, "a" and "p" for any other character
DefaultConfig ==
    [state |-> "built", base_url |-> <<"http:", "/", "/", "a">>,
     api_prefix |-> <<"/", "p">>, timeout |-> 1]

Init ==
    /\ mode \in Modes
    /\ callers = {MainTask}
    /\ buffer \in 0..MaxBuffer
    /\ now = 0
    /\ token = NoToken
    /\ refresh = None
    /\ op = [t \in Tasks |-> "none"]
    /\ pc = [t \in Tasks |-> "idle"]
    /\ tok = [t \in Tasks |-> NoToken]
    /\ log = [t \in Tasks |-> <<>>]
    /\ outcome = [t \in Tasks |-> NoOutcome]
    /\ config = DefaultConfig
    /\ session = InitialSession(mode)
    /\ unclosed = InitialUnclosed(mode)
    /\ req = [t \in Tasks |-> NoRequest]
    /\ sent = [t \in Tasks |-> <<>>]
    /\ blocks = 0
    /\ retry = NoRetry
    /\ server = NoServer

\* a caller that waits for its call to return before it makes the next
CanCall(t) == t \in callers /\ pc[t] = "idle"

\* task t enters operation o
Enter(t, o) == op' = [op EXCEPT ![t] = o]

\* task t leaves its operation with outcome out
Leave(t, out) ==
    /\ pc' = [pc EXCEPT ![t] = "done"]
    /\ outcome' = [outcome EXCEPT ![t] = out]

\* task t sends a network call and waits for the answer at p
Await(t, p) ==
    /\ pc' = [pc EXCEPT ![t] = p]
    /\ UNCHANGED outcome

Logged(t, es) == log' = [log EXCEPT ![t] = log[t] \o es]

Store(s) == token' = s.token /\ refresh' = s.refresh

--------------------------------------------------------------------------
(* Calls handed to a session *)

\* task t hands the call that is the last entry of es, with request r, to
\* session s and waits for the answer at p
Transport(t, es, p, r, s, u) ==
    IF SessionIsClosed(mode, s, u)
    THEN /\ Logged(t, SubSeq(es, 1, Len(es) - 1))
         /\ Leave(t, RaiseSessionIsClosed)
         /\ UNCHANGED sent
    ELSE /\ Logged(t, es)
         /\ Await(t, p)
         /\ sent' = [sent EXCEPT ![t] = Append(@, Call(es[Len(es)].ev, s, r))]

\* session = self._get_session(); session.request(...)
Dispatch(t, es, p, r) ==
    /\ (mode = "async" /\ session = NoSession) => CanCreate(session, unclosed)
    /\ LET g == get_session(mode, session, unclosed) IN
        /\ session' = g.session
        /\ unclosed' = g.unclosed
        /\ Transport(t, es, p, r, g.session, g.unclosed)

\* session.request(...) on the session s taken before
DispatchOn(t, es, p, r, s) ==
    /\ UNCHANGED <<session, unclosed>>
    /\ Transport(t, es, p, r, s, unclosed)

\* no call is handed to a session
NoCall == UNCHANGED <<session, unclosed, sent>>

--------------------------------------------------------------------------
(* time.time() moves on *)

Tick ==
    /\ now < MaxTime
    /\ now' = now + 1
    /\ UNCHANGED <<server, retry, blocks, config, mode, callers, buffer, token, refresh, op, pc, tok, log, outcome,
                 session, unclosed, req, sent>>

(* TokenManager.clear_tokens *)

\* the access token dropped, the refresh value left in place
clear_tokens_keeps_refresh ==
    /\ token' = NoToken
    /\ UNCHANGED <<server, retry, blocks, config, mode, callers, buffer, now, refresh, op, pc, tok, log,
                   outcome, session, unclosed, req, sent>>

clear_tokens ==
    /\ token' = NoToken
    /\ refresh' = None
    /\ UNCHANGED <<server, retry, blocks, config, mode, callers, buffer, now, op, pc, tok, log, outcome,
                 session, unclosed, req, sent>>

--------------------------------------------------------------------------
(* authenticate *)

authenticate(t) ==
    /\ CanCall(t)
    /\ Enter(t, "authenticate")
    /\ Dispatch(t, <<Ev("POST login")>>, "login", LoginRequest)
    /\ UNCHANGED <<server, retry, blocks, config, mode, callers, buffer, now, token, refresh, tok, req>>

authenticate_answer(t, a) ==
    /\ pc[t] = "login"
    /\ LET r == authenticate_response(mode, a, token, refresh) IN
        /\ Store(r.store)
        /\ Leave(t, r.out)
    /\ NoCall
    /\ UNCHANGED <<server, retry, blocks, config, mode, callers, buffer, now, op, tok, log, req>>

--------------------------------------------------------------------------
(* refresh_token, called by the user *)

\* the refresh call sent without looking at the stored refresh value
refresh_token_unguarded(t) ==
    /\ CanCall(t)
    /\ Enter(t, "refresh_token")
    /\ Dispatch(t, <<Ev("refresh_token"), Ev("POST refresh")>>, "refresh",
                RefreshRequest(refresh))
    /\ UNCHANGED <<server, retry, blocks, config, mode, callers, buffer, now, token, refresh, tok, req>>

refresh_token(t) ==
    /\ CanCall(t)
    /\ Enter(t, "refresh_token")
    /\ IF ~TruthyStr(refresh)
       THEN /\ Logged(t, <<Ev("refresh_token")>>)
            /\ Leave(t, NoRefreshToken)
            /\ NoCall
       ELSE Dispatch(t, <<Ev("refresh_token"), Ev("POST refresh")>>, "refresh",
                     RefreshRequest(refresh))
    /\ UNCHANGED <<server, retry, blocks, config, mode, callers, buffer, now, token, refresh, tok, req>>

refresh_answer(t, a) ==
    /\ pc[t] = "refresh"
    /\ LET r == refresh_response(mode, a, token, refresh) IN
        /\ Store(r.store)
        /\ Leave(t, r.out)
    /\ NoCall
    /\ server' = Served(server, a)
    /\ UNCHANGED <<retry, blocks, config, mode, callers, buffer, now, op, tok, log, req>>

--------------------------------------------------------------------------
(* validate_token: token is the argument, None when the caller gives none  *)

\* the tokens a caller passes to validate_token
ValidateArgs == {NoToken, EmptyToken, OpaqueToken, JWT(MaxExp)}

\* check_token = token or self.token_manager.token
check_token(arg, tk) == IF Truthy(arg) THEN arg ELSE tk

\* the validate call sent whether or not there is a token to check
validate_token_unguarded(t, arg) ==
    /\ CanCall(t)
    /\ Enter(t, "validate_token")
    /\ Dispatch(t, <<Ev("GET validate")>>, "validate",
                ValidateRequest(check_token(arg, token)))
    /\ tok' = [tok EXCEPT ![t] = check_token(arg, token)]
    /\ UNCHANGED <<server, retry, blocks, config, mode, callers, buffer, now, token, refresh, req>>

validate_token(t, arg) ==
    /\ CanCall(t)
    /\ Enter(t, "validate_token")
    /\ LET c == check_token(arg, token) IN
        IF ~Truthy(c)
        THEN /\ Leave(t, ReturnBool(FALSE))
             /\ NoCall
             /\ UNCHANGED <<tok, log>>
        ELSE /\ Dispatch(t, <<Ev("GET validate")>>, "validate", ValidateRequest(c))
             /\ tok' = [tok EXCEPT ![t] = c]
    /\ UNCHANGED <<server, retry, blocks, config, mode, callers, buffer, now, token, refresh, req>>

\* validate_token from the answer of the validate call on
validate_response(m, a) ==
    IF a.fault # "none"
    THEN IF TransportCaught(m, a.fault)
         THEN Raise("TokenValidationError", "Failed to validate token", 0)
         ELSE Raise("TimeoutError", "", 0)
    ELSE IF a.status = 200 THEN ReturnBool(TRUE)
    ELSE IF a.status = 401 THEN ReturnBool(FALSE)
    ELSE Raise("TokenValidationError", "Token validation failed with status", 0)

validate_answer(t, a) ==
    /\ pc[t] = "validate"
    /\ Leave(t, validate_response(mode, a))
    /\ NoCall
    /\ UNCHANGED <<server, retry, blocks, config, mode, callers, buffer, now, token, refresh, op, tok, log, req>>

--------------------------------------------------------------------------
(* ensure_valid_token up to its first network call: what it does with the  *)
(* stored pair tk, rf at time time                                         *)

\* TokenExpiredError raised for a missing token
ensure_valid_token_check_other_error(tk, rf, buf, time) ==
    IF ~Truthy(tk)
    THEN [next |-> "leave", log |-> <<>>,
          out |-> Raise("TokenExpiredError", "No token available", 0)]
    ELSE IF ~TM_is_token_expired(tk, buf, time)
    THEN [next |-> "leave", log |-> <<>>, out |-> ReturnToken(tk)]
    ELSE IF ~TruthyStr(rf)
    THEN [next |-> "leave", log |-> <<Ev("refresh_token")>>,
          out |-> ensure_except(NoRefreshToken)]
    ELSE [next |-> "await", log |-> <<Ev("refresh_token"), Ev("POST refresh")>>,
          out |-> NoOutcome]

\* the test of the oracle's answer inverted
ensure_valid_token_check_inverted(tk, rf, buf, time) ==
    IF ~Truthy(tk)
    THEN [next |-> "leave", log |-> <<>>,
          out |-> Raise("AuthenticationError", "No token available", 0)]
    ELSE IF TM_is_token_expired(tk, buf, time)
    THEN [next |-> "leave", log |-> <<>>, out |-> ReturnToken(tk)]
    ELSE IF ~TruthyStr(rf)
    THEN [next |-> "leave", log |-> <<Ev("refresh_token")>>,
          out |-> ensure_except(NoRefreshToken)]
    ELSE [next |-> "await", log |-> <<Ev("refresh_token"), Ev("POST refresh")>>,
          out |-> NoOutcome]

\* the stored token returned without asking the oracle
ensure_valid_token_check_no_oracle(tk, rf, buf, time) ==
    IF ~Truthy(tk)
    THEN [next |-> "leave", log |-> <<>>,
          out |-> Raise("AuthenticationError", "No token available", 0)]
    ELSE [next |-> "leave", log |-> <<>>, out |-> ReturnToken(tk)]

ensure_valid_token_check(tk, rf, buf, time) ==
    IF ~Truthy(tk)
    THEN [next |-> "leave", log |-> <<>>,
          out |-> Raise("AuthenticationError", "No token available", 0)]
    ELSE IF ~TM_is_token_expired(tk, buf, time)
    THEN [next |-> "leave", log |-> <<>>, out |-> ReturnToken(tk)]
    ELSE IF ~TruthyStr(rf)
    THEN [next |-> "leave", log |-> <<Ev("refresh_token")>>,
          out |-> ensure_except(NoRefreshToken)]
    ELSE [next |-> "await", log |-> <<Ev("refresh_token"), Ev("POST refresh")>>,
          out |-> NoOutcome]

(* ensure_valid_token, called by the user *)

\* a caller that finds a refresh of another caller in flight waits for its
\* answer and sends none of its own
ensure_valid_token_joins(t) ==
    /\ CanCall(t)
    /\ Enter(t, "ensure_valid_token")
    /\ LET c == ensure_valid_token_check(token, refresh, buffer, now) IN
        IF c.next = "leave"
        THEN /\ Logged(t, c.log)
             /\ Leave(t, c.out)
             /\ NoCall
        ELSE IF \E u \in Tasks \ {t} : pc[u] = "ensure_refresh"
        THEN /\ Logged(t, <<Ev("refresh_token")>>)
             /\ Await(t, "ensure_refresh")
             /\ NoCall
        ELSE Dispatch(t, c.log, "ensure_refresh", RefreshRequest(refresh))
    /\ UNCHANGED <<server, retry, blocks, config, mode, callers, buffer, now, token, refresh, tok, req>>

ensure_valid_token(t) ==
    /\ CanCall(t)
    /\ Enter(t, "ensure_valid_token")
    /\ LET c == ensure_valid_token_check(token, refresh, buffer, now) IN
        IF c.next = "leave"
        THEN /\ Logged(t, c.log)
             /\ Leave(t, c.out)
             /\ NoCall
        ELSE Dispatch(t, c.log, "ensure_refresh", RefreshRequest(refresh))
    /\ UNCHANGED <<server, retry, blocks, config, mode, callers, buffer, now, token, refresh, tok, req>>

(* make_authenticated_request up to its first network call: the token of   *)
(* ensure_valid_token goes into the header and the request is dispatched;  *)
(* an error of ensure_valid_token is raised outside the try block          *)

make_authenticated_request(t, k) ==
    /\ CanCall(t)
    /\ Enter(t, "make_authenticated_request")
    /\ LET c == ensure_valid_token_check(token, refresh, buffer, now) IN
        IF c.next = "await"
        THEN /\ Dispatch(t, c.log, "ensure_refresh", RefreshRequest(refresh))
             /\ req' = [req EXCEPT ![t] = k]
             /\ UNCHANGED tok
        ELSE IF c.out.kind = "token"
        THEN /\ Dispatch(t, c.log \o <<Ev("dispatch")>>, "dispatch1",
                         SetAuthHeader(k, c.out.token))
             /\ req' = [req EXCEPT ![t] = SetAuthHeader(k, c.out.token)]
             /\ tok' = [tok EXCEPT ![t] = c.out.token]
        ELSE /\ Logged(t, c.log)
             /\ Leave(t, c.out)
             /\ NoCall
             /\ req' = [req EXCEPT ![t] = k]
             /\ UNCHANGED tok
    /\ UNCHANGED <<server, retry, blocks, config, mode, callers, buffer, now, token, refresh>>

(* the answer to the refresh call that ensure_valid_token made *)

ensure_refresh_answer(t, a) ==
    /\ pc[t] = "ensure_refresh"
    /\ LET r == refresh_response(mode, a, token, refresh)
           e == ensure_except(r.out)
       IN
        /\ Store(r.store)
        /\ IF e.kind # "token"
           THEN /\ Logged(t, <<Ev("refresh failed")>>)
                /\ Leave(t, e)
                /\ NoCall
                /\ UNCHANGED <<tok, req>>
           ELSE IF op[t] = "ensure_valid_token"
           THEN /\ Logged(t, <<Ev("refreshed")>>)
                /\ Leave(t, e)
                /\ NoCall
                /\ UNCHANGED <<tok, req>>
           ELSE /\ Dispatch(t, <<Ev("refreshed"), Ev("dispatch")>>, "dispatch1",
                            SetAuthHeader(req[t], e.token))
                /\ req' = [req EXCEPT ![t] = SetAuthHeader(req[t], e.token)]
                /\ tok' = [tok EXCEPT ![t] = e.token]
    /\ server' = Served(server, a)
    /\ UNCHANGED <<retry, blocks, config, mode, callers, buffer, now, op>>

--------------------------------------------------------------------------
(* make_authenticated_request from the first answer of the target on: rf   *)
(* is the stored refresh value when the answer is handled                  *)

first_response(m, a, rf) ==
    IF a.fault # "none"
    THEN [next |-> "leave", log |-> <<Ev("fault")>>,
          out |-> OnFault(m, a.fault, "API request failed")]
    ELSE IF IsRejected(a.status)
    THEN IF ~TruthyStr(rf)
         THEN [next |-> "leave",
               log |-> <<EvStatus("response", a.status), Ev("refresh_token")>>,
               out |-> retry_except(NoRefreshToken)]
         ELSE [next |-> "await",
               log |-> <<EvStatus("response", a.status), Ev("refresh_token"),
                         Ev("POST refresh")>>,
               out |-> NoOutcome]
    ELSE [next |-> "leave", log |-> <<EvStatus("response", a.status)>>,
          out |-> ReturnResponse(a.status)]

first_answer(t, a) ==
    /\ pc[t] = "dispatch1"
    /\ LET c == first_response(mode, a, refresh) IN
        IF c.next = "leave"
        THEN /\ Logged(t, c.log)
             /\ Leave(t, c.out)
             /\ NoCall
        ELSE Dispatch(t, c.log, "retry_refresh", RefreshRequest(refresh))
    /\ UNCHANGED <<server, retry, blocks, config, mode, callers, buffer, now, token, refresh, op, tok, req>>

(* the answer to the refresh call made after a 401: on success the header  *)
(* is rebuilt from the new token and the request is dispatched again       *)

retry_refresh_answer(t, a) ==
    /\ pc[t] = "retry_refresh"
    /\ LET r == refresh_response(mode, a, token, refresh) IN
        /\ Store(r.store)
        /\ IF r.out.kind = "token"
           THEN /\ DispatchOn(t, <<Ev("refreshed"), Ev("dispatch")>>, "dispatch2",
                              SetAuthHeader(req[t], r.out.token),
                              LocalSession(sent[t]))
                /\ req' = [req EXCEPT ![t] = SetAuthHeader(req[t], r.out.token)]
                /\ tok' = [tok EXCEPT ![t] = r.out.token]
           ELSE /\ Logged(t, <<Ev("refresh failed")>>)
                /\ Leave(t, retry_except(r.out))
                /\ NoCall
                /\ UNCHANGED <<tok, req>>
    /\ server' = Served(server, a)
    /\ UNCHANGED <<retry, blocks, config, mode, callers, buffer, now, op>>

(* the answer to the retry is returned whatever its status *)

\* the response of the first dispatch returned after the retry
second_response_stale(m, a) ==
    IF a.fault # "none"
    THEN [log |-> <<Ev("fault")>>, out |-> OnFault(m, a.fault, "API request failed")]
    ELSE [log |-> <<EvStatus("response", a.status)>>, out |-> ReturnResponse(401)]

\* a 401 on the retry raised as an error
second_response_raising(m, a) ==
    IF a.fault # "none"
    THEN [log |-> <<Ev("fault")>>, out |-> OnFault(m, a.fault, "API request failed")]
    ELSE IF a.status = 401
    THEN [log |-> <<EvStatus("response", a.status)>>,
          out |-> Raise("AuthenticationError", "Authentication expired", 0)]
    ELSE [log |-> <<EvStatus("response", a.status)>>, out |-> ReturnResponse(a.status)]

second_response(m, a) ==
    IF a.fault # "none"
    THEN [log |-> <<Ev("fault")>>, out |-> OnFault(m, a.fault, "API request failed")]
    ELSE [log |-> <<EvStatus("response", a.status)>>, out |-> ReturnResponse(a.status)]

\* the request dispatched again as long as the answer is a 401
second_answer_loop(t, a) ==
    /\ pc[t] = "dispatch2"
    /\ LET c == second_response(mode, a) IN
        IF a.fault = "none" /\ a.status = 401 /\ Len(log[t]) < 9
        THEN DispatchOn(t, c.log \o <<Ev("dispatch")>>, "dispatch2", req[t],
                        LocalSession(sent[t]))
        ELSE /\ Logged(t, c.log)
             /\ Leave(t, c.out)
             /\ NoCall
    /\ UNCHANGED <<server, retry, blocks, config, mode, callers, buffer, now, token, refresh, op, tok, req>>

second_answer(t, a) ==
    /\ pc[t] = "dispatch2"
    /\ LET c == second_response(mode, a) IN
        /\ Logged(t, c.log)
        /\ Leave(t, c.out)
        /\ NoCall
    /\ UNCHANGED <<server, retry, blocks, config, mode, callers, buffer, now, token, refresh, op, tok, req>>

--------------------------------------------------------------------------
(* The life of the session *)

\* AuthClient.close: self.session.close()
\* AsyncAuthClient.close: if self.session: close it, self.session = None
close(t) ==
    /\ CanCall(t)
    /\ Enter(t, "close")
    /\ IF mode = "sync"
       THEN /\ unclosed' = unclosed \ {session}
            /\ UNCHANGED session
       ELSE IF session # NoSession
       THEN /\ unclosed' = unclosed \ {session}
            /\ session' = NoSession
       ELSE UNCHANGED <<session, unclosed>>
    /\ Leave(t, ReturnNone)
    /\ UNCHANGED <<server, retry, blocks, config, mode, callers, buffer, now, token, refresh, tok, log,
                   req, sent>>

\* AsyncAuthClient.__aenter__: self.session = aiohttp.ClientSession(...)
aenter(t) ==
    /\ mode = "async"
    /\ CanCall(t)
    /\ blocks < MaxBlocks
    /\ CanCreate(session, unclosed)
    /\ Enter(t, "__aenter__")
    /\ session' = NewSession(session, unclosed)
    /\ unclosed' = unclosed \cup {NewSession(session, unclosed)}
    /\ blocks' = blocks + 1
    /\ Leave(t, ReturnNone)
    /\ UNCHANGED <<server, retry, config, mode, callers, buffer, now, token, refresh, tok, log,
                   req, sent>>

\* AsyncAuthClient.__aexit__: if self.session: await self.session.close()
aexit(t) ==
    /\ mode = "async"
    /\ CanCall(t)
    /\ blocks > 0
    /\ Enter(t, "__aexit__")
    /\ unclosed' = unclosed \ {session}
    /\ blocks' = blocks - 1
    /\ Leave(t, ReturnNone)
    /\ UNCHANGED <<server, retry, config, mode, callers, buffer, now, token, refresh, tok, log,
                   req, sent, session>>

--------------------------------------------------------------------------
(* the caller takes the outcome; the task is free for the next call *)

Finish(t) ==
    /\ pc[t] = "done"
    /\ pc' = [pc EXCEPT ![t] = "idle"]
    /\ op' = [op EXCEPT ![t] = "none"]
    /\ tok' = [tok EXCEPT ![t] = NoToken]
    /\ log' = [log EXCEPT ![t] = <<>>]
    /\ outcome' = [outcome EXCEPT ![t] = NoOutcome]
    /\ req' = [req EXCEPT ![t] = NoRequest]
    /\ sent' = [sent EXCEPT ![t] = <<>>]
    /\ UNCHANGED <<server, retry, blocks, config, mode, callers, buffer, now, token, refresh, session, unclosed>>

--------------------------------------------------------------------------

Next ==
    \/ Tick
    \/ clear_tokens
    \/ \E t \in Tasks : authenticate(t)
    \/ \E t \in Tasks, a \in TokenAnswers : authenticate_answer(t, a)
    \/ \E t \in Tasks : refresh_token(t)
    \/ \E t \in Tasks, a \in TokenAnswers : refresh_answer(t, a)
    \/ \E t \in Tasks, arg \in ValidateArgs : validate_token(t, arg)
    \/ \E t \in Tasks, a \in TargetAnswers : validate_answer(t, a)
    \/ \E t \in Tasks : ensure_valid_token(t)
    \/ \E t \in Tasks, k \in CallerRequests : make_authenticated_request(t, k)
    \/ \E t \in Tasks, a \in TokenAnswers : ensure_refresh_answer(t, a)
    \/ \E t \in Tasks, a \in TargetAnswers : first_answer(t, a)
    \/ \E t \in Tasks, a \in TokenAnswers : retry_refresh_answer(t, a)
    \/ \E t \in Tasks, a \in TargetAnswers : second_answer(t, a)
    \/ \E t \in Tasks : Finish(t)

Spec == Init /\ [][Next]_vars

--------------------------------------------------------------------------
(* The client with the operations on its session: close, and the           *)
(* 'async with' block of the non-blocking client.  The server answers a    *)
(* login or a refresh with a token pair or a 401, the target with 200/401. *)

SessionTokenAnswers ==
    {Response(401, NoToken, Absent)}
    \cup {Response(200, JWT(e), "r1") : e \in {1, MaxExp}}
SessionTargetAnswers == {Response(s, NoToken, Absent) : s \in {200, 401}}
SessionRequest == Request("GET", "e1", AbsentHeader, Absent)

InitSession == Init

NextSession ==
    \/ \E t \in Tasks : close(t)
    \/ \E t \in Tasks : aenter(t)
    \/ \E t \in Tasks : aexit(t)
    \/ \E t \in Tasks : authenticate(t)
    \/ \E t \in Tasks, a \in SessionTokenAnswers : authenticate_answer(t, a)
    \/ \E t \in Tasks : refresh_token(t)
    \/ \E t \in Tasks, a \in SessionTokenAnswers : refresh_answer(t, a)
    \/ \E t \in Tasks : validate_token(t, NoToken)
    \/ \E t \in Tasks, a \in SessionTargetAnswers : validate_answer(t, a)
    \/ \E t \in Tasks : ensure_valid_token(t)
    \/ \E t \in Tasks : make_authenticated_request(t, SessionRequest)
    \/ \E t \in Tasks, a \in SessionTokenAnswers : ensure_refresh_answer(t, a)
    \/ \E t \in Tasks, a \in SessionTargetAnswers : first_answer(t, a)
    \/ \E t \in Tasks, a \in SessionTokenAnswers : retry_refresh_answer(t, a)
    \/ \E t \in Tasks, a \in SessionTargetAnswers : second_answer(t, a)
    \/ \E t \in Tasks : Finish(t)

SpecSession == InitSession /\ [][NextSession]_vars

--------------------------------------------------------------------------
(* Two coroutines on one non-blocking client.  The client was logged in    *)
(* before: a token that expires at time 1 and a refresh value are stored.  *)
(* Each coroutine stops at its awaits, where the other one can run.        *)

ConcurrentTokenAnswers ==
    {Response(200, JWT(MaxExp), "r2"), Response(401, NoToken, Absent)}
ConcurrentTargetAnswers == {Response(s, NoToken, Absent) : s \in {200, 401}}

InitConcurrent ==
    /\ mode = "async"
    /\ callers = Tasks
    /\ buffer \in 0..MaxBuffer
    /\ now = 0
    /\ token = JWT(1)
    /\ refresh = "r1"
    /\ op = [t \in Tasks |-> "none"]
    /\ pc = [t \in Tasks |-> "idle"]
    /\ tok = [t \in Tasks |-> NoToken]
    /\ log = [t \in Tasks |-> <<>>]
    /\ outcome = [t \in Tasks |-> NoOutcome]
    /\ config = DefaultConfig
    /\ session = InitialSession(mode)
    /\ unclosed = InitialUnclosed(mode)
    /\ req = [t \in Tasks |-> NoRequest]
    /\ sent = [t \in Tasks |-> <<>>]
    /\ blocks = 0
    /\ retry = NoRetry
    /\ server = NoServer

NextConcurrent ==
    \/ Tick
    \/ \E t \in Tasks : ensure_valid_token(t)
    \/ \E t \in Tasks : make_authenticated_request(t, SessionRequest)
    \/ \E t \in Tasks, a \in ConcurrentTokenAnswers : ensure_refresh_answer(t, a)
    \/ \E t \in Tasks, a \in ConcurrentTargetAnswers : first_answer(t, a)
    \/ \E t \in Tasks, a \in ConcurrentTokenAnswers : retry_refresh_answer(t, a)
    \/ \E t \in Tasks, a \in ConcurrentTargetAnswers : second_answer(t, a)
    \/ \E t \in Tasks : Finish(t)

SpecConcurrent == InitConcurrent /\ [][NextConcurrent]_vars

--------------------------------------------------------------------------
(* Config: the validators that run when a Config is constructed, and       *)
(* get_full_url.  A text is a sequence of characters; "http:", "https:"    *)
(* and "ftp:" stand for those characters taken together, every other       *)
(* symbol for one character that is not a slash.                           *)

\* the texts of at most n characters from A
Texts(A, n) == UNION {[1..k -> A] : k \in 0..n}

\* only one slash taken off
lstrip_one(v) == IF v # <<>> /\ Head(v) = "/" THEN Tail(v) ELSE v

\* str.lstrip('/')
RECURSIVE lstrip(_)
lstrip(v) == IF v # <<>> /\ Head(v) = "/" THEN lstrip(Tail(v)) ELSE v

\* str.rstrip('/')
RECURSIVE rstrip(_)
rstrip(v) ==
    IF v # <<>> /\ v[Len(v)] = "/" THEN rstrip(SubSeq(v, 1, Len(v) - 1)) ELSE v

\* str.strip('/')
strip(v) == rstrip(lstrip(v))

\* v.startswith(('http://', 'https://'))
startswith_http(v) ==
    /\ Len(v) >= 3
    /\ v[1] \in {"http:", "https:"}
    /\ v[2] = "/"
    /\ v[3] = "/"

\* what Config(...) can be handed
BaseUrlArgs ==
    Texts({"/", "a"}, MaxUrlLen)
    \cup {<<c>> \o v : c \in {"http:", "https:", "ftp:"}, v \in Texts({"/", "a"}, MaxUrlLen)}
PrefixArgs == Texts({"/", "p"}, MaxPathLen)
TimeoutArgs == -1..MaxTimeout
\* what get_full_url can be handed
Endpoints == Texts({"/", "e"}, MaxPathLen)

\* the arguments of a Config that is about to be constructed
ConfigArgs(b, p, n) == [state |-> "args", base_url |-> b, api_prefix |-> p, timeout |-> n]

\* a base_url accepted whatever it starts with
validate_base_url_any(v) == [ok |-> TRUE, value |-> rstrip(v)]

\* Config.validate_base_url
validate_base_url(v) ==
    IF ~startswith_http(v)
    THEN [ok |-> FALSE, value |-> v]
    ELSE [ok |-> TRUE, value |-> rstrip(v)]

\* Config.validate_timeout
validate_timeout(v) ==
    IF v <= 0 THEN [ok |-> FALSE, value |-> v] ELSE [ok |-> TRUE, value |-> v]

InitConfig ==
    /\ mode = "sync"
    /\ callers = {MainTask}
    /\ buffer = 0
    /\ now = 0
    /\ token = NoToken
    /\ refresh = None
    /\ op = [t \in Tasks |-> "none"]
    /\ pc = [t \in Tasks |-> "idle"]
    /\ tok = [t \in Tasks |-> NoToken]
    /\ log = [t \in Tasks |-> <<>>]
    /\ outcome = [t \in Tasks |-> NoOutcome]
    /\ config \in {ConfigArgs(b, p, n) :
                     b \in BaseUrlArgs, p \in PrefixArgs, n \in TimeoutArgs}
    /\ session = NoSession
    /\ unclosed = {}
    /\ req = [t \in Tasks |-> NoRequest]
    /\ sent = [t \in Tasks |-> <<>>]
    /\ blocks = 0
    /\ retry = NoRetry
    /\ server = NoServer

\* Config(base_url=..., api_prefix=..., timeout=...): the validators run in
\* the order of the fields; a ConfigurationError ends the construction
Config_init(t) ==
    /\ CanCall(t)
    /\ config.state = "args"
    /\ Enter(t, "Config")
    /\ LET b == validate_base_url(config.base_url)
           n == validate_timeout(config.timeout)
       IN IF ~b.ok
          THEN /\ config' = [config EXCEPT !.state = "failed"]
               /\ Leave(t, Raise("ConfigurationError",
                                 "base_url must start with http:// or https://", 0))
          ELSE IF ~n.ok
          THEN /\ config' = [config EXCEPT !.state = "failed"]
               /\ Leave(t, Raise("ConfigurationError", "timeout must be positive", 0))
          ELSE /\ config' = [config EXCEPT !.state = "built", !.base_url = b.value,
                                           !.timeout = n.value]
               /\ Leave(t, ReturnNone)
    /\ UNCHANGED <<server, retry, blocks, mode, callers, buffer, now, token, refresh, tok, log,
                   session, unclosed, req, sent>>

\* Config.get_full_url
full_url(c, endpoint) ==
    c.base_url \o <<"/">> \o strip(c.api_prefix) \o <<"/">> \o lstrip(endpoint)

get_full_url(t, endpoint) ==
    /\ CanCall(t)
    /\ config.state = "built"
    /\ Enter(t, "get_full_url")
    /\ Leave(t, ReturnText(full_url(config, endpoint)))
    /\ UNCHANGED <<server, retry, blocks, config, mode, callers, buffer, now, token, refresh, tok, log,
                   session, unclosed, req, sent>>

NextConfig ==
    \/ \E t \in Tasks : Config_init(t)
    \/ \E t \in Tasks, e \in Endpoints : get_full_url(t, e)
    \/ \E t \in Tasks : Finish(t)

SpecConfig == InitConfig /\ [][NextConfig]_vars

--------------------------------------------------------------------------
(* utils.is_token_expired called on its own: task t calls                  *)
(* is_token_expired(tok[t], buffer) when time.time() is now                *)

\* the payloads a three-segment text can carry, with the exp claims that go
\* with them
Payloads ==
    {[claims |-> c, exp |-> 0] :
        c \in {"undecodable", "notjson", "notmap", "noexp", "nullexp", "strexp"}}
    \cup {[claims |-> "boolexp", exp |-> e] : e \in {0, 1}}
    \cup {[claims |-> "numexp", exp |-> e] : e \in 0..MaxExp}

\* what is_token_expired can be handed as its token
OracleTokens ==
    {NoToken, EmptyToken}
    \cup {[kind |-> "text", segs |-> n, claims |-> p.claims, exp |-> p.exp] :
            n \in 1..MaxSegs, p \in Payloads}

InitOracle ==
    /\ mode \in Modes
    /\ callers = {MainTask}
    /\ buffer \in 0..MaxBuffer
    /\ now \in 0..MaxTime
    /\ token = NoToken
    /\ refresh = None
    /\ op = [t \in Tasks |-> "none"]
    /\ pc = [t \in Tasks |-> "idle"]
    /\ tok \in {[t \in Tasks |-> IF t = MainTask THEN x ELSE NoToken] : x \in OracleTokens}
    /\ log = [t \in Tasks |-> <<>>]
    /\ outcome = [t \in Tasks |-> NoOutcome]
    /\ config = DefaultConfig
    /\ session = InitialSession(mode)
    /\ unclosed = InitialUnclosed(mode)
    /\ req = [t \in Tasks |-> NoRequest]
    /\ sent = [t \in Tasks |-> <<>>]
    /\ blocks = 0
    /\ retry = NoRetry
    /\ server = NoServer

call_is_token_expired(t) ==
    /\ CanCall(t)
    /\ Enter(t, "is_token_expired")
    /\ Leave(t, is_token_expired_outcome(tok[t], buffer, now))
    /\ UNCHANGED <<server, retry, blocks, config, mode, callers, buffer, now, token, refresh, tok, log,
                 session, unclosed, req, sent>>

NextOracle == \E t \in Tasks : call_is_token_expired(t)

SpecOracle == InitOracle /\ [][NextOracle]_vars

--------------------------------------------------------------------------
(* the retry helpers called on their own: task t calls the wrapper that    *)
(* retry_with_backoff returns (blocking), or awaits                        *)
(* async_retry_with_backoff (non-blocking); every invocation of the        *)
(* wrapped function is a step whose outcome is an input                    *)

InitRetry ==
    /\ mode \in Modes
    /\ callers = {MainTask}
    /\ buffer = 0
    /\ now = 0
    /\ token = NoToken
    /\ refresh = None
    /\ op = [t \in Tasks |-> "none"]
    /\ pc = [t \in Tasks |-> "idle"]
    /\ tok = [t \in Tasks |-> NoToken]
    /\ log = [t \in Tasks |-> <<>>]
    /\ outcome = [t \in Tasks |-> NoOutcome]
    /\ config = DefaultConfig
    /\ session = InitialSession(mode)
    /\ unclosed = InitialUnclosed(mode)
    /\ req = [t \in Tasks |-> NoRequest]
    /\ sent = [t \in Tasks |-> <<>>]
    /\ blocks = 0
    /\ retry \in {RetryArgs(n, d, b) :
                    n \in -1..MaxRetries, d \in -1..MaxDelay, b \in -1..MaxBackoff}
    /\ server = NoServer

\* the wrapper is called: the loop starts and func is invoked for the first
\* time, or the range is empty and the wrapper returns None
retry_with_backoff(t) ==
    /\ CanCall(t)
    /\ retry.state \in {"args", "done"}
    /\ Enter(t, "retry_with_backoff")
    /\ retry' = retry_enter(retry)
    /\ IF retry'.state = "running" THEN Await(t, "func") ELSE Leave(t, ReturnNone)
    /\ UNCHANGED <<server, blocks, config, mode, callers, buffer, now, token, refresh, tok, log,
                   session, unclosed, req, sent>>

\* the invocation of func ends with r; the wrapper returns, raises, or
\* sleeps and invokes func again
func_answer(t, r) ==
    /\ pc[t] = "func"
    /\ LET s == retry_step(mode, retry, r) IN
        /\ retry' = s.frame
        /\ IF s.frame.state = "done" THEN Leave(t, s.out) ELSE UNCHANGED <<pc, outcome>>
    /\ UNCHANGED <<server, blocks, config, mode, callers, buffer, now, token, refresh, op, tok, log,
                   session, unclosed, req, sent>>

NextRetry ==
    \/ \E t \in Tasks : retry_with_backoff(t)
    \/ \E t \in Tasks, r \in FuncOutcomes : func_answer(t, r)
    \/ \E t \in Tasks : Finish(t)

SpecRetry == InitRetry /\ [][NextRetry]_vars

--------------------------------------------------------------------------
(* Two coroutines make authenticated requests on one non-blocking client   *)
(* against a server with single-use refresh values.  Before: the server    *)
(* has issued a token that expires at time 1 and its first refresh value,  *)
(* and both are stored.  Every call is answered by that server: a refresh  *)
(* call by its refresh endpoint, a target call by whether the server       *)
(* accepts the access token the call carries.                              *)

InitRotating ==
    /\ mode = "async"
    /\ callers = Tasks
    /\ buffer \in 0..MaxBuffer
    /\ now = 0
    /\ token = JWT(1)
    /\ refresh = ServerRefreshValue(RotatingServer(0))
    /\ op = [t \in Tasks |-> "none"]
    /\ pc = [t \in Tasks |-> "idle"]
    /\ tok = [t \in Tasks |-> NoToken]
    /\ log = [t \in Tasks |-> <<>>]
    /\ outcome = [t \in Tasks |-> NoOutcome]
    /\ config = DefaultConfig
    /\ session = InitialSession(mode)
    /\ unclosed = InitialUnclosed(mode)
    /\ req = [t \in Tasks |-> NoRequest]
    /\ sent = [t \in Tasks |-> <<>>]
    /\ blocks = 0
    /\ retry = NoRetry
    /\ server = RotatingServer(0)

\* the answer of the rotating server to the call task t waits for
ServerAnswer(t) ==
    LET c == sent[t][Len(sent[t])] IN
    IF c.call = "POST refresh"
    THEN ServerRefresh(server, c.request.other)
    ELSE ServerTarget(c.request.auth.token, now)

\* the server can answer the call task t waits for: it has a new refresh
\* value left to hand out if the call is a refresh that it accepts
CanServe(t) ==
    /\ pc[t] \notin {"idle", "done"}
    /\ ServerAnswer(t).status = 200 => server.rotations < MaxRotations

NextRotating ==
    \/ Tick
    \/ \E t \in Tasks : make_authenticated_request(t, SessionRequest)
    \/ \E t \in Tasks : CanServe(t) /\ ensure_refresh_answer(t, ServerAnswer(t))
    \/ \E t \in Tasks : CanServe(t) /\ first_answer(t, ServerAnswer(t))
    \/ \E t \in Tasks : CanServe(t) /\ retry_refresh_answer(t, ServerAnswer(t))
    \/ \E t \in Tasks : CanServe(t) /\ second_answer(t, ServerAnswer(t))
    \/ \E t \in Tasks : Finish(t)

SpecRotating == InitRotating /\ [][NextRotating]_vars

--------------------------------------------------------------------------
(* Logging in again on a client that is authenticated already.  Before: a  *)
(* token and a refresh value are stored.  Two callers use the client, so   *)
(* that a refresh of the session before can still be in flight when the    *)
(* login is answered.                                                      *)

InitRelogin ==
    /\ mode \in Modes
    /\ callers = Tasks
    /\ buffer = 0
    /\ now = 0
    /\ token = JWT(1)
    /\ refresh = "r1"
    /\ op = [t \in Tasks |-> "none"]
    /\ pc = [t \in Tasks |-> "idle"]
    /\ tok = [t \in Tasks |-> NoToken]
    /\ log = [t \in Tasks |-> <<>>]
    /\ outcome = [t \in Tasks |-> NoOutcome]
    /\ config = DefaultConfig
    /\ session = InitialSession(mode)
    /\ unclosed = InitialUnclosed(mode)
    /\ req = [t \in Tasks |-> NoRequest]
    /\ sent = [t \in Tasks |-> <<>>]
    /\ blocks = 0
    /\ retry = NoRetry
    /\ server = NoServer

NextRelogin ==
    \/ \E t \in Tasks : authenticate(t)
    \/ \E t \in Tasks, a \in TokenAnswers : authenticate_answer(t, a)
    \/ \E t \in Tasks : refresh_token(t)
    \/ \E t \in Tasks, a \in TokenAnswers : refresh_answer(t, a)
    \/ \E t \in Tasks : Finish(t)

SpecRelogin == InitRelogin /\ [][NextRelogin]_vars

--------------------------------------------------------------------------
(* Spec with every network call of an authenticated request answered in    *)
(* the end: the transport hands back a response or a fault for each call   *)
(* that is in flight                                                       *)

CallsAnswered ==
    \A t \in Tasks :
        /\ WF_vars(\E a \in TokenAnswers : ensure_refresh_answer(t, a))
        /\ WF_vars(\E a \in TargetAnswers : first_answer(t, a))
        /\ WF_vars(\E a \in TokenAnswers : retry_refresh_answer(t, a))
        /\ WF_vars(\E a \in TargetAnswers : second_answer(t, a))

SpecAnswered == Spec /\ CallsAnswered

--------------------------------------------------------------------------
(* Properties *)

Req(t) == op[t] = "make_authenticated_request"
Dispatches(l) == Count(l, "dispatch")
RefreshCalls(l) == Count(l, "POST refresh")
\* the entries of l before position i, and after it
Before(l, i) == IF i = 0 THEN l ELSE SubSeq(l, 1, i - 1)
After(l, i) == IF i = 0 THEN <<>> ELSE SubSeq(l, i + 1, Len(l))

\* C1: an authenticated request dispatches the target endpoint at most
\* twice, and a second time only after the first response was a 401 and the
\* refresh that followed succeeded.
C1_DispatchAtMostTwice ==
    \A t \in Tasks : Req(t) =>
        LET l == log[t]
            d1 == Pos(l, "dispatch", 1)
            d2 == Pos(l, "dispatch", 2)
        IN /\ Dispatches(l) <= 2
           /\ d2 # 0 => /\ l[d1 + 1] = EvStatus("response", 401)
                        /\ l[d2 - 1] = Ev("refreshed")
                        /\ d2 - 1 > d1 + 1
                        /\ Count(SubSeq(l, d1, d2), "refresh failed") = 0

C1_Witness ==
    \E t \in Tasks : Req(t) /\ pc[t] = "done" /\ Dispatches(log[t]) = 2

\* C2: an authenticated request calls the refresh endpoint at most twice: at
\* most once before the first dispatch, at most once after it and then only
\* after a 401, and never after the second dispatch.
C2_RefreshAtMostTwice ==
    \A t \in Tasks : Req(t) =>
        LET l == log[t]
            d1 == Pos(l, "dispatch", 1)
            d2 == Pos(l, "dispatch", 2)
        IN /\ RefreshCalls(l) <= 2
           /\ d1 # 0 => RefreshCalls(Before(l, d1)) <= 1
           /\ RefreshCalls(After(l, d1)) <= 1
           /\ RefreshCalls(After(l, d1)) = 1 => l[d1 + 1] = EvStatus("response", 401)
           /\ RefreshCalls(After(l, d2)) = 0

C2_Witness ==
    \E t \in Tasks :
        /\ Req(t) /\ pc[t] = "done"
        /\ RefreshCalls(log[t]) = 2
        /\ RefreshCalls(Before(log[t], Pos(log[t], "dispatch", 1))) = 1

\* the request of task t is over and went: stored token found unexpired,
\* dispatch, 401, refresh succeeded, retry answered 200
C3_Case(t) ==
    LET l == log[t] IN
        /\ Req(t) /\ pc[t] = "done"
        /\ Len(l) >= 2
        /\ l[1] = Ev("dispatch")
        /\ l[2] = EvStatus("response", 401)
        /\ Count(l, "refreshed") = 1
        /\ l[Len(l)] = EvStatus("response", 200)

\* C3: such a request made exactly two calls to the target endpoint and one
\* refresh call, and the caller gets the 200 response.
C3_RetryAfter401 ==
    \A t \in Tasks : C3_Case(t) =>
        /\ Dispatches(log[t]) = 2
        /\ RefreshCalls(log[t]) = 1
        /\ outcome[t] = ReturnResponse(200)

C3_Witness == \E t \in Tasks : C3_Case(t)

\* C4: a request whose first dispatch was answered 401 and whose refresh
\* then failed, in whatever way, raises AuthenticationError and has
\* dispatched the target endpoint once.
C4_RefreshFailureRaisesAuthenticationError ==
    \A t \in Tasks :
        LET l == log[t]
            d1 == Pos(l, "dispatch", 1)
        IN (/\ Req(t) /\ pc[t] = "done"
            /\ d1 # 0 /\ Len(l) > d1
            /\ l[d1 + 1] = EvStatus("response", 401)
            /\ Count(After(l, d1), "refreshed") = 0)
           => /\ outcome[t].kind = "raise"
              /\ outcome[t].err = "AuthenticationError"
              /\ Dispatches(l) = 1

\* task t, waiting at p, gets a response with status s from the target
Answered(t, p, s) ==
    /\ pc[t] = p
    /\ Len(log'[t]) > Len(log[t])
    /\ log'[t][Len(log[t]) + 1] = EvStatus("response", s)

\* C5: a first response with a status other than 401 is returned to the
\* caller with no refresh and the stored pair as it was; the response to the
\* retry is returned whatever its status, a 401 too, with no refresh.
C5_ResponsesReturnedAsIs ==
    [][\A t \in Tasks, s \in Statuses :
        /\ (Answered(t, "dispatch1", s) /\ s # 401) =>
              /\ pc'[t] = "done"
              /\ outcome'[t] = ReturnResponse(s)
              /\ Len(log'[t]) = Len(log[t]) + 1
              /\ token' = token /\ refresh' = refresh
        /\ Answered(t, "dispatch2", s) =>
              /\ pc'[t] = "done"
              /\ outcome'[t] = ReturnResponse(s)
              /\ Len(log'[t]) = Len(log[t]) + 1
              /\ token' = token /\ refresh' = refresh]_vars

C5_Witness ==
    \E t \in Tasks :
        /\ Req(t) /\ pc[t] = "done"
        /\ Dispatches(log[t]) = 2
        /\ outcome[t] = ReturnResponse(401)

\* task t calls operation o
Calls(t, o) == pc[t] = "idle" /\ pc'[t] # "idle" /\ op'[t] = o

NetworkCalls(l) ==
    Count(l, "POST login") + Count(l, "POST refresh") + Count(l, "GET validate")
        + Count(l, "dispatch")

\* C6: with no access token stored, ensure_valid_token raises
\* AuthenticationError without a network call, and an authenticated request
\* does the same and so dispatches nothing.
C6_EmptySessionRaises ==
    [][\A t \in Tasks :
        ((Calls(t, "ensure_valid_token") \/ Calls(t, "make_authenticated_request"))
            /\ token = NoToken)
        => /\ pc'[t] = "done"
           /\ outcome'[t].kind = "raise"
           /\ outcome'[t].err = "AuthenticationError"
           /\ NetworkCalls(log'[t]) = 0]_vars

C6_Witness ==
    \E t \in Tasks :
        /\ op[t] = "ensure_valid_token" /\ pc[t] = "done"
        /\ token = NoToken
        /\ outcome[t].kind = "raise"
        /\ outcome[t].err = "AuthenticationError"
        /\ NetworkCalls(log[t]) = 0

\* C7: ensure_valid_token whose refresh fails, in whatever way, raises
\* AuthenticationError.
C7_RefreshFailureWrapped ==
    \A t \in Tasks :
        (/\ op[t] = "ensure_valid_token" /\ pc[t] = "done"
         /\ Count(log[t], "refresh_token") = 1
         /\ Count(log[t], "refreshed") = 0)
        => /\ outcome[t].kind = "raise"
           /\ outcome[t].err = "AuthenticationError"

\* C8: ensure_valid_token on a stored token that the oracle reports not
\* expired with the configured buffer returns that token, makes no network
\* call and leaves the stored pair as it was.
C8_UnexpiredTokenReturned ==
    [][\A t \in Tasks :
        (Calls(t, "ensure_valid_token")
            /\ Truthy(token) /\ ~is_token_expired(token, buffer, now))
        => /\ pc'[t] = "done"
           /\ outcome'[t] = ReturnToken(token)
           /\ NetworkCalls(log'[t]) = 0
           /\ token' = token /\ refresh' = refresh]_vars

C8_Witness ==
    \E t \in Tasks :
        /\ op[t] = "ensure_valid_token" /\ pc[t] = "done"
        /\ Truthy(token) /\ ~is_token_expired(token, buffer, now)
        /\ outcome[t] = ReturnToken(token)
        /\ log[t] = <<>>

\* C9 as stated: a request started with no token stored and a request
\* started with an expired token both attempt a refresh first.
C9_BothRouteThroughRefresh ==
    [][\A t \in Tasks :
        (Calls(t, "make_authenticated_request")
            /\ TM_is_token_expired(token, buffer, now))
        => /\ log'[t] # <<>>
           /\ Head(log'[t]) = Ev("refresh_token")]_vars

\* the request of task t began with a refresh attempt, and any dispatch of
\* the target endpoint comes after that refresh succeeded
RefreshFirst(t) ==
    LET l == log[t] IN
        /\ l # <<>>
        /\ Head(l) = Ev("refresh_token")
        /\ Dispatches(l) > 0 =>
              /\ Pos(l, "refreshed", 1) # 0
              /\ Pos(l, "refreshed", 1) < Pos(l, "dispatch", 1)

\* C9, amended: a request started with a stored token that the oracle
\* reports expired attempts a refresh before the target endpoint is
\* dispatched; a request started with no token stored attempts no refresh
\* and dispatches nothing.
C9_ExpiredRoutesThroughRefresh ==
    [][\A t \in Tasks :
        /\ (Calls(t, "make_authenticated_request")
              /\ Truthy(token) /\ is_token_expired(token, buffer, now))
           => RefreshFirst(t)'
        /\ (Req(t) /\ pc[t] # "idle" /\ RefreshFirst(t) /\ pc'[t] # "idle")
           => RefreshFirst(t)'
        /\ (Calls(t, "make_authenticated_request") /\ token = NoToken)
           => /\ log'[t] = <<>>
              /\ pc'[t] = "done"]_vars

C9_Witness ==
    \E t \in Tasks :
        /\ Req(t) /\ RefreshFirst(t)
        /\ Dispatches(log[t]) = 1

\* C10: authenticate whose login call is answered 200 with a non-empty token
\* stores that token and the refreshToken of the body, or no refresh value
\* when the body has none, and returns the token.
C10_AuthenticateStoresPair ==
    [][\A t \in Tasks, a \in TokenAnswers :
        (authenticate_answer(t, a)
            /\ a.fault = "none" /\ a.status = 200 /\ Truthy(a.token))
        => /\ token' = a.token
           /\ refresh' = (IF a.refreshToken = Absent THEN None ELSE a.refreshToken)
           /\ outcome'[t] = ReturnToken(a.token)
           /\ pc'[t] = "done"]_vars

C10_Witness ==
    \E t \in Tasks :
        /\ op[t] = "authenticate" /\ pc[t] = "done"
        /\ outcome[t].kind = "token"
        /\ token = outcome[t].token
        /\ refresh = "r1"

\* C11: authenticate raises AuthenticationError on a 401 and on a 200
\* without a token, APIError with the status code on any other status,
\* APIError on a transport fault, and no other kind of error.
C11_AuthenticateErrorKinds ==
    [][\A t \in Tasks, a \in TokenAnswers :
        authenticate_answer(t, a) =>
            LET o == outcome'[t] IN
            /\ a.fault # "none" => (o.kind = "raise" /\ o.err = "APIError")
            /\ (a.fault = "none" /\ a.status = 401)
                  => (o.kind = "raise" /\ o.err = "AuthenticationError")
            /\ (a.fault = "none" /\ a.status = 200 /\ ~Truthy(a.token))
                  => (o.kind = "raise" /\ o.err = "AuthenticationError")
            /\ (a.fault = "none" /\ a.status \notin {200, 401})
                  => (o.kind = "raise" /\ o.err = "APIError" /\ o.status = a.status)
            /\ o.kind = "raise" => o.err \in {"AuthenticationError", "APIError"}]_vars

\* the pcs at which a task waits for the answer to a refresh call
RefreshPcs == {"refresh", "ensure_refresh", "retry_refresh"}

\* C12: the stored pair changes only in a clear_tokens, in an authenticate
\* that succeeds, or in a refresh that succeeds; a failing authenticate, a
\* failing refresh, validate_token, and ensure_valid_token or a request
\* without a successful refresh leave both values as they were.
C12_StoreChangesOnlyOnSuccess ==
    [][(token' # token \/ refresh' # refresh) =>
        \/ token' = NoToken /\ refresh' = None /\ pc' = pc /\ log' = log
        \/ \E t \in Tasks :
              /\ op[t] = "authenticate" /\ pc[t] = "login" /\ pc'[t] = "done"
              /\ outcome'[t] = ReturnToken(token')
        \/ \E t \in Tasks :
              /\ pc[t] \in RefreshPcs
              /\ \/ pc'[t] = "done" /\ outcome'[t] = ReturnToken(token')
                 \/ pc'[t] \in {"dispatch1", "dispatch2"} /\ tok'[t] = token']_vars

C12_Witness ==
    \E t \in Tasks :
        /\ op[t] = "authenticate" /\ pc[t] = "done"
        /\ outcome[t].kind = "raise"
        /\ Truthy(token) /\ TruthyStr(refresh)

\* C13: refresh_token with no refresh value stored raises
\* AuthenticationError at once and makes no network call, in both clients.
C13_NoRefreshValueRaises ==
    [][\A t \in Tasks :
        (Calls(t, "refresh_token") /\ ~TruthyStr(refresh))
        => /\ pc'[t] = "done"
           /\ outcome'[t].kind = "raise"
           /\ outcome'[t].err = "AuthenticationError"
           /\ NetworkCalls(log'[t]) = 0]_vars

C13_Witness ==
    \E t \in Tasks :
        /\ op[t] = "refresh_token" /\ pc[t] = "done"
        /\ Truthy(token) /\ ~TruthyStr(refresh)
        /\ outcome[t].kind = "raise"
        /\ outcome[t].err = "AuthenticationError"
        /\ NetworkCalls(log[t]) = 0

\* task t handles the answer a to a refresh call
RefreshAnswered(t, a) ==
    refresh_answer(t, a) \/ ensure_refresh_answer(t, a) \/ retry_refresh_answer(t, a)

C15_RefreshErrorKinds ==
    [][\A t \in Tasks, a \in TokenAnswers :
        refresh_answer(t, a) =>
            LET o == outcome'[t] IN
            /\ a.fault # "none" => (o.kind = "raise" /\ o.err = "APIError")
            /\ (a.fault = "none" /\ a.status = 401)
                  => (o.kind = "raise" /\ o.err = "AuthenticationError")
            /\ (a.fault = "none" /\ a.status = 200 /\ ~Truthy(a.token))
                  => (o.kind = "raise" /\ o.err = "AuthenticationError")
            /\ (a.fault = "none" /\ a.status \notin {200, 401})
                  => (o.kind = "raise" /\ o.err = "APIError" /\ o.status = a.status)]_vars

\* C16: validate_token checks the token it is given, or the stored one when
\* it is given none; it returns true on a 200 and false on a 401, and raises
\* TokenValidationError on any other status and on a transport fault.
C16_ValidateOutcomes ==
    [][\A t \in Tasks :
        /\ \A arg \in ValidateArgs :
              (validate_token(t, arg) /\ pc'[t] = "validate")
              => tok'[t] = (IF arg \in {NoToken, EmptyToken} THEN token ELSE arg)
        /\ \A a \in TargetAnswers :
              validate_answer(t, a) =>
                  LET o == outcome'[t] IN
                  /\ (a.fault = "none" /\ a.status = 200) => o = ReturnBool(TRUE)
                  /\ (a.fault = "none" /\ a.status = 401) => o = ReturnBool(FALSE)
                  /\ (a.fault # "none" \/ a.status \notin {200, 401})
                        => (o.kind = "raise" /\ o.err = "TokenValidationError")]_vars

\* C17: validate_token given no token, with no access token stored, returns
\* false and makes no network call.
C17_NothingToValidate ==
    [][\A t \in Tasks :
        (validate_token(t, NoToken) /\ token = NoToken)
        => /\ pc'[t] = "done"
           /\ outcome'[t] = ReturnBool(FALSE)
           /\ NetworkCalls(log'[t]) = 0]_vars

C17_Witness ==
    \E t \in Tasks :
        /\ op[t] = "validate_token" /\ pc[t] = "done"
        /\ token = NoToken
        /\ outcome[t] = ReturnBool(FALSE)
        /\ NetworkCalls(log[t]) = 0

\* the oracle has been called by t and has handed back its outcome
OracleDone(t) == op[t] = "is_token_expired" /\ pc[t] = "done"

\* a text of three segments whose payload is a claim map with a numeric exp
WellFormed(x) ==
    x.kind = "text" /\ x.segs = 3 /\ x.claims \in {"numexp", "boolexp"}

\* C18: for a well-formed three-segment token with a numeric exp, a buffer b
\* and a current time now, is_token_expired returns true exactly when
\* now + b >= exp, and false when exp > now + b.
C18_ExpiredIffWithinBuffer ==
    \A t \in Tasks :
        (OracleDone(t) /\ WellFormed(tok[t]))
        => outcome[t] = ReturnBool(now + buffer >= tok[t].exp)

\* exp exactly equal to now + b, with a buffer that makes the difference
C18_Witness ==
    \E t \in Tasks :
        /\ OracleDone(t)
        /\ WellFormed(tok[t])
        /\ buffer > 0
        /\ tok[t].exp = now + buffer
        /\ outcome[t] = ReturnBool(TRUE)

\* not a text of three segments, a payload that does not decode, one that
\* is not a claim map, or a claim map without a numeric exp
Malformed(x) ==
    \/ x.kind # "text"
    \/ x.segs # 3
    \/ x.claims \in {"undecodable", "notjson", "notmap", "noexp", "nullexp", "strexp"}

\* C19: for a malformed input (segment count other than three, payload that
\* does not decode as base64, payload that is not a JSON claim map, claim map
\* without exp or with a non-numeric exp) is_token_expired returns true and
\* raises nothing.
C19_MalformedIsExpired ==
    \A t \in Tasks :
        (OracleDone(t) /\ Malformed(tok[t])) => outcome[t] = ReturnBool(TRUE)

\* three segments and a claim map whose exp is a string: the comparison
\* raises inside the try block
C19_Witness ==
    \E t \in Tasks :
        /\ OracleDone(t)
        /\ tok[t].segs = 3 /\ tok[t].claims = "strexp"
        /\ is_token_expired_try(tok[t], buffer, now).kind = "raise"
        /\ outcome[t] = ReturnBool(TRUE)

\* C20: in every reachable state is_authenticated is true exactly when an
\* access token is stored and the oracle reports it not expired with the
\* configured buffer; with no stored token is_authenticated is false and
\* is_token_expired is true.
C20_AuthenticatedIffUnexpired ==
    /\ TM_is_authenticated(token, buffer, now)
         <=> (token # NoToken /\ ~is_token_expired(token, buffer, now))
    /\ token = NoToken
         => (~TM_is_authenticated(token, buffer, now)
             /\ TM_is_token_expired(token, buffer, now))

\* a token is stored and is_authenticated is true with a buffer in force
C20_Witness ==
    /\ token # NoToken
    /\ buffer > 0
    /\ TM_is_authenticated(token, buffer, now)

\* task t has just been handed the token of a successful login
Authenticated(t, a) == authenticate_answer(t, a) /\ outcome'[t].kind = "token"

\* C21 as stated: after a successful authenticate is_authenticated is true;
\* after a following clear_tokens is_authenticated is false and neither an
\* access value nor a refresh value is in the store.
C21_RoundTrip ==
    [][/\ \A t \in Tasks, a \in TokenAnswers :
            Authenticated(t, a) => TM_is_authenticated(token', buffer', now')
       /\ clear_tokens
            => /\ ~TM_is_authenticated(token', buffer', now')
               /\ token' = NoToken /\ refresh' = None]_vars

\* C21, amended: after a successful authenticate is_authenticated is true
\* when the oracle reports the token of the response unexpired with the
\* configured buffer, and false when it does not; after a following
\* clear_tokens is_authenticated is false and neither an access value nor a
\* refresh value is in the store.
C21_RoundTripOfUnexpired ==
    [][/\ \A t \in Tasks, a \in TokenAnswers :
            Authenticated(t, a)
            => /\ token' = a.token
               /\ TM_is_authenticated(token', buffer', now')
                    <=> ~is_token_expired(a.token, buffer, now)
       /\ clear_tokens
            => /\ ~TM_is_authenticated(token', buffer', now')
               /\ token' = NoToken /\ refresh' = None]_vars

\* the login returned an unexpired token with a refresh value and the store
\* has been cleared since
C21_Witness ==
    \E t \in Tasks :
        /\ op[t] = "authenticate" /\ pc[t] = "done"
        /\ outcome[t].kind = "token"
        /\ ~is_token_expired(outcome[t].token, buffer, now)
        /\ token = NoToken /\ refresh = None

\* C22: the stored token is cleared on close: after close(), in either
\* mode, the store holds no access value and no refresh value.
C22_CloseClearsStore ==
    [][\A t \in Tasks : close(t) => (token' = NoToken /\ refresh' = None)]_vars

\* C29: inside an 'async with AsyncAuthClient(config) as client' block the
\* session of the client is not None; after the block is left,
\* client.session is None.
C29_SessionOnlyInsideBlock ==
    [][\A t \in Tasks :
        /\ aenter(t) => session' # NoSession
        /\ aexit(t) => session' = NoSession]_vars

\* task t hands a call to a session in this step
HandsCall(t) == Len(sent'[t]) > Len(sent[t])

\* a fresh non-blocking client has no session
C30_FreshHasNone == mode = "async" => session = NoSession
\* the client never has more than one unclosed session that it created
C30_OneUnclosed == mode = "async" => Cardinality(unclosed) <= 1
\* the first network operation creates one session, a later one uses the
\* session that is set; close() closes it and resets it to None
C30_Steps ==
    mode = "async" =>
        \A t \in Tasks :
            /\ HandsCall(t) =>
                /\ sent'[t][Len(sent'[t])].session = session'
                /\ IF session = NoSession
                   THEN /\ session' # NoSession
                        /\ session' \notin unclosed
                        /\ unclosed' = unclosed \cup {session'}
                   ELSE session' = session /\ unclosed' = unclosed
            /\ close(t) => (session' = NoSession /\ session \notin unclosed')

\* C30: the session of the non-blocking client is created lazily: a fresh
\* client has none, the first network operation creates exactly one, every
\* later operation uses that same session while it is set, close() closes it
\* and resets it to absent, and at no time has the client more than one
\* unclosed session that it created.
C30_LazySession ==
    /\ C30_FreshHasNone
    /\ []C30_OneUnclosed
    /\ [][C30_Steps]_vars

\* C23: in non-blocking mode the requests of one client share one store and
\* refreshes are not serialized: a request that finds the stored token
\* expired sends its own refresh call also while the refresh call of another
\* request is in flight, so two refresh calls of one session can be in flight
\* at the same time.
C23_RefreshNotSerialized ==
    [][\A t \in Tasks :
        (/\ Calls(t, "ensure_valid_token") \/ Calls(t, "make_authenticated_request")
         /\ mode = "async"
         /\ \E u \in Tasks \ {t} : pc[u] \in RefreshPcs
         /\ Truthy(token) /\ TM_is_token_expired(token, buffer, now)
         /\ TruthyStr(refresh))
        => /\ pc'[t] = "ensure_refresh"
           /\ HandsCall(t)
           /\ sent'[t][Len(sent'[t])].call = "POST refresh"
           /\ RefreshCalls(log'[t]) = 1]_vars

\* two requests have seen the same expired token, still stored, and the
\* refresh call of each is in flight
C23_Witness ==
    /\ mode = "async"
    /\ token = JWT(1) /\ TM_is_token_expired(token, buffer, now)
    /\ \A t \in Tasks :
        /\ pc[t] = "ensure_refresh"
        /\ sent[t] # <<>>
        /\ sent[t][Len(sent[t])].call = "POST refresh"

\* C24: the blocking and the non-blocking client have the same observable
\* contract: from the same stored tokens and for the same answer of the
\* server or fault of the transport, each operation gives the same outcome
\* (value or error kind), makes the same calls and leaves the same tokens in
\* the store.
C24_SameContract ==
    [][\A t \in Tasks :
        /\ \A a \in TokenAnswers :
            /\ (authenticate_answer(t, a))
                => authenticate_response("sync", a, token, refresh)
                     = authenticate_response("async", a, token, refresh)
            /\ (RefreshAnswered(t, a))
                => refresh_response("sync", a, token, refresh)
                     = refresh_response("async", a, token, refresh)
        /\ \A a \in TargetAnswers :
            /\ (validate_answer(t, a))
                => validate_response("sync", a) = validate_response("async", a)
            /\ (first_answer(t, a))
                => first_response("sync", a, refresh) = first_response("async", a, refresh)
            /\ (second_answer(t, a))
                => second_response("sync", a) = second_response("async", a)]_vars

\* C25: a fault of the transport, a timeout included, during authenticate,
\* refresh_token, validate_token or an authenticated request reaches the
\* caller, in either mode, as APIError (authenticate, refresh, request) or
\* as TokenValidationError (validate), never as a raw transport exception
\* or a timeout or cancellation kind of its own.
C25_FaultsWrapped ==
    [][\A t \in Tasks, f \in Faults :
        /\ (\/ authenticate_answer(t, Fault(f))
            \/ RefreshAnswered(t, Fault(f))
            \/ first_answer(t, Fault(f))
            \/ second_answer(t, Fault(f)))
           => (outcome'[t].kind = "raise" /\ outcome'[t].err = "APIError")
        /\ validate_answer(t, Fault(f))
           => (outcome'[t].kind = "raise" /\ outcome'[t].err = "TokenValidationError")]_vars

\* the last call of l, and the first target dispatch of l
LastCall(l) == l[Len(l)]
FirstDispatch(l) == SelectSeq(l, LAMBDA x : x.call = "dispatch")[1]
\* request k with the auth header '<prefix> <token>' of token x
WithToken(k, x) == [k EXCEPT !.auth = [prefix |-> TokenPrefix, token |-> x]]

\* C26: the first dispatch of an authenticated request carries the auth
\* header '<prefix> <token>' of the token that ensure_valid_token returned;
\* the retry is the same request with the auth header rebuilt from the token
\* of the reactive refresh; the caller's other headers reach the transport
\* unchanged on both dispatches and a caller's auth header is overridden.
C26_AuthHeader ==
    [][\A t \in Tasks :
        /\ \A k \in CallerRequests :
            /\ (make_authenticated_request(t, k) /\ pc'[t] = "dispatch1")
                => LastCall(sent'[t]).request = WithToken(k, token)
            /\ (make_authenticated_request(t, k) /\ pc'[t] = "ensure_refresh")
                => req'[t] = k
        /\ \A a \in TokenAnswers :
            /\ (ensure_refresh_answer(t, a) /\ pc'[t] = "dispatch1")
                => LastCall(sent'[t]).request = WithToken(req[t], a.token)
            /\ (retry_refresh_answer(t, a) /\ pc'[t] = "dispatch2")
                => LastCall(sent'[t]).request
                     = WithToken(FirstDispatch(sent[t]).request, a.token)]_vars

\* a request whose caller gave an auth header and another header has been
\* dispatched twice, with two different tokens
C26_Witness ==
    \E t \in Tasks :
        /\ Req(t) /\ pc[t] = "done" /\ Dispatches(log[t]) = 2
        /\ LET d1 == FirstDispatch(sent[t]).request
               d2 == LastCall(sent[t]).request
           IN /\ d1.other = "x" /\ d2.other = "x"
              /\ d1.auth.prefix = TokenPrefix /\ d2.auth.prefix = TokenPrefix
              /\ d1.auth.token # d2.auth.token

\* how many slashes v starts with, and how many it ends with
LeadingSlashes(v) ==
    CHOOSE n \in 0..Len(v) :
        /\ \A i \in 1..n : v[i] = "/"
        /\ n < Len(v) => v[n + 1] # "/"
TrailingSlashes(v) ==
    CHOOSE n \in 0..Len(v) :
        /\ \A i \in (Len(v) - n + 1)..Len(v) : v[i] = "/"
        /\ n < Len(v) => v[Len(v) - n] # "/"
\* v without its leading slashes, and without leading and trailing slashes
TrimLeading(v) == SubSeq(v, LeadingSlashes(v) + 1, Len(v))
TrimBoth(v) ==
    LET w == TrimLeading(v) IN SubSeq(w, 1, Len(w) - TrailingSlashes(w))

\* C27: for every base_url, api_prefix and endpoint, get_full_url returns
\* base_url + "/" + api_prefix without its leading and trailing slashes
\* + "/" + endpoint without its leading slashes.
C27_FullUrl ==
    [][\A t \in Tasks, e \in Endpoints :
        get_full_url(t, e)
        => outcome'[t] = ReturnText(config.base_url \o <<"/">>
                                     \o TrimBoth(config.api_prefix) \o <<"/">>
                                     \o TrimLeading(e))]_vars

\* 'http://a' with prefix '/p' and endpoint 'e/e' gives 'http://a/p/e/e'
C27_Witness ==
    \E t \in Tasks :
        /\ op[t] = "get_full_url" /\ pc[t] = "done"
        /\ config.base_url = <<"http:", "/", "/", "a">>
        /\ config.api_prefix = <<"/", "p">>
        /\ outcome[t] = ReturnText(<<"http:", "/", "/", "a", "/", "p", "/", "e", "/", "e">>)

\* a Config exists only with a base_url that starts with http:// or
\* https:// and does not end in a slash, and with a timeout > 0
C28_ConfigIsValid ==
    config.state = "built" =>
        /\ startswith_http(config.base_url)
        /\ config.base_url[Len(config.base_url)] # "/"
        /\ config.timeout > 0
\* a construction with a bad base_url or timeout fails with
\* ConfigurationError and gives no Config
C28_BadArgsFail ==
    \A t \in Tasks :
        (Config_init(t) /\ (~startswith_http(config.base_url) \/ config.timeout <= 0))
        => /\ config'.state = "failed"
           /\ outcome'[t].kind = "raise" /\ outcome'[t].err = "ConfigurationError"
\* no operation other than the construction raises ConfigurationError
C28_OnlyAtConstruction ==
    \A t \in Tasks : op[t] # "Config" => outcome[t].err # "ConfigurationError"

\* C28: configuration is validated at construction only: a Config whose
\* base_url does not start with 'http://' or 'https://', or whose timeout is
\* not positive, fails with ConfigurationError and gives no Config object;
\* every Config that exists has a base_url with an http(s) scheme and no
\* trailing slash and a timeout > 0, and no request operation raises
\* ConfigurationError.
C28_ValidatedAtConstruction ==
    /\ []C28_ConfigIsValid
    /\ [][C28_BadArgsFail]_vars
    /\ []C28_OnlyAtConstruction

--------------------------------------------------------------------------
(* The retry helpers *)

\* the invocations of the wrapped function started so far in this call
Invocations ==
    Len(retry.results) + (IF \E t \in Tasks : pc[t] = "func" THEN 1 ELSE 0)

RetryReturned(t) == op[t] = "retry_with_backoff" /\ pc[t] = "done"

LastResult == retry.results[Len(retry.results)]

\* C31: retry_with_backoff and async_retry_with_backoff invoke the wrapped
\* function at most max_retries + 1 times; only an invocation that raised is
\* followed by another one, and the result of the first invocation that does
\* not raise is what the helper returns; one sleep lies between two
\* consecutive invocations, the first of length delay and each later one of
\* the length of the one before multiplied by backoff; when invocation
\* max_retries + 1 fails, its exception is what the helper raises, and no
\* sleep follows it.
C31_RetryWithBackoff ==
    retry.state \in {"running", "done"} =>
        /\ Invocations <= retry.max_retries + 1
        /\ \A i \in 1..(Len(retry.results) - 1) : IsException(retry.results[i])
        /\ Len(retry.sleeps) = (IF Invocations > 0 THEN Invocations - 1 ELSE 0)
        /\ \A i \in 1..Len(retry.sleeps) :
              retry.sleeps[i] = (IF i = 1 THEN retry.delay
                                 ELSE retry.sleeps[i - 1] * retry.backoff)
        /\ \A t \in Tasks :
              (RetryReturned(t) /\ retry.results # <<>>) =>
                  /\ LastResult.kind # "raise" => outcome[t] = LastResult
                  /\ (IsException(LastResult)
                      /\ Len(retry.results) = retry.max_retries + 1) =>
                          /\ outcome[t] = LastResult
                          /\ Len(retry.sleeps) = retry.max_retries

\* every attempt of a call with two retries has failed, each with another
\* exception than the one before, and the delay has doubled in between
C31_Witness ==
    /\ RetryReturned(MainTask)
    /\ retry.max_retries = 2
    /\ retry.results = <<Raise("ValueError", "", 0), Raise("KeyError", "", 0),
                         Raise("ValueError", "", 0)>>
    /\ retry.sleeps = <<1, 2>>
    /\ outcome[MainTask] = Raise("ValueError", "", 0)

--------------------------------------------------------------------------
(* Sessions of the non-blocking client *)

\* C32: every call of the non-blocking client is handed to an open session:
\* every call in flight is on a session that is not closed, and no operation
\* is refused because the session it took from _get_session was closed.
C32_DispatchedOnOpenSession ==
    mode = "async" =>
        \A t \in Tasks :
            /\ outcome[t] # RaiseSessionIsClosed
            /\ (pc[t] \notin {"idle", "done"} /\ sent[t] # <<>>) =>
                   LastCall(sent[t]).session \in unclosed

--------------------------------------------------------------------------
(* Concurrent requests against a server with single-use refresh values *)

\* request t ends with AuthenticationError in this step
FailsAuthentication(t) ==
    /\ Req(t)
    /\ pc[t] # "done"
    /\ pc'[t] = "done"
    /\ outcome'[t].kind = "raise"
    /\ outcome'[t].err = "AuthenticationError"

\* C33: against a server with single-use refresh values, no one of two
\* concurrent authenticated requests of one non-blocking client ends with
\* AuthenticationError while the store holds an access token that the
\* server accepts.
C33_NoFailureBesideAcceptedToken ==
    [][\A t \in Tasks : FailsAuthentication(t) => ~ServerAccepts(token', now')]_vars

--------------------------------------------------------------------------
(* The stored pair *)

\* C34: in every state the client operations reach, a refresh value in the
\* store comes with a non-empty access value in the store: there is no state
\* with a refresh value and no access token.
C34_RefreshImpliesAccess == refresh # None => Truthy(token)

\* a request has refreshed, and the refresh value of the refresh response is
\* stored together with the token the request was sent with
C34_Witness ==
    \E t \in Tasks :
        /\ Req(t) /\ pc[t] = "done"
        /\ RefreshCalls(log[t]) = 1
        /\ refresh = "r2"
        /\ token = tok[t]
        /\ Truthy(token)

\* C35: a refresh that succeeds while a refresh value is stored leaves a
\* refresh value in the store, also when the body of the response has the
\* key refreshToken with an empty or a null value.
C35_RefreshKeepsRefreshable ==
    [][\A t \in Tasks, a \in TokenAnswers :
        (RefreshAnswered(t, a)
            /\ a.fault = "none" /\ a.status = 200 /\ Truthy(a.token)
            /\ TruthyStr(refresh))
        => TruthyStr(refresh')]_vars

\* C36: an authenticate that succeeds replaces the stored pair as a whole:
\* the stored token is the one of this login response, the stored refresh
\* value is the refreshToken of this login response or none, and it is the
\* refresh value stored before only if this response carries that value;
\* when the response has no refreshToken, no refresh value is stored.
C36_LoginReplacesPair ==
    [][\A t \in Tasks, a \in TokenAnswers :
        (authenticate_answer(t, a)
            /\ a.fault = "none" /\ a.status = 200 /\ Truthy(a.token))
        => /\ token' = a.token
           /\ refresh' \in {a.refreshToken, None}
           /\ a.refreshToken = Absent => refresh' = None
           /\ (refresh' = refresh /\ refresh # None) => a.refreshToken = refresh]_vars

\* a refresh call that carries the refresh value of the session before is
\* still in flight, and the login of the other caller has succeeded and has
\* left no refresh value in the store
C36_Witness ==
    \E t, u \in Tasks :
        /\ op[t] = "authenticate" /\ pc[t] = "done"
        /\ outcome[t] = ReturnToken(token)
        /\ refresh = None
        /\ pc[u] = "refresh"
        /\ LastCall(sent[u]).request.other = "r1"

--------------------------------------------------------------------------
(* The token of the first dispatch *)

\* task t hands the first target call of its request to a session
FirstDispatched(t) ==
    /\ Req(t) \/ Calls(t, "make_authenticated_request")
    /\ HandsCall(t)
    /\ LastCall(sent'[t]).call = "dispatch"
    /\ Dispatches(log[t]) = 0

\* the access token in the auth header of the last call of l
Attached(l) == LastCall(l).request.auth.token

\* C37: the token attached to the first dispatch of an authenticated request
\* is either the stored token, which the oracle has just reported unexpired,
\* or the token of the response to a refresh made inside this request, which
\* is attached without a look at the oracle; a stored token that the oracle
\* reports expired at the check is never attached.
C37_FirstDispatchToken ==
    [][\A t \in Tasks :
        FirstDispatched(t) =>
            \/ /\ Calls(t, "make_authenticated_request")
               /\ Attached(sent'[t]) = token
               /\ ~TM_is_token_expired(token, buffer, now)
            \/ /\ pc[t] = "ensure_refresh"
               /\ \E a \in TokenAnswers :
                     /\ ensure_refresh_answer(t, a)
                     /\ a.fault = "none" /\ a.status = 200
                     /\ Attached(sent'[t]) = a.token]_vars

\* the first dispatch is in flight with a token that a refresh inside the
\* request returned and that the oracle reports expired
C37_Witness ==
    \E t \in Tasks :
        /\ Req(t) /\ pc[t] = "dispatch1"
        /\ RefreshCalls(log[t]) = 1
        /\ TM_is_token_expired(Attached(sent[t]), buffer, now)

--------------------------------------------------------------------------
(* Access tokens that the oracle cannot decode *)

\* C38: when the login response carries a token that is not a three-segment
\* text with a numeric exp, authenticate succeeds, stores it and returns it,
\* and is_authenticated is false right afterwards; as long as such a token
\* is stored, every authenticated request first sends a refresh call and
\* has made no dispatch by then, or, with no refresh value stored, raises
\* AuthenticationError without any network call.
C38_UndecodableToken ==
    [][/\ \A t \in Tasks, a \in TokenAnswers :
            (authenticate_answer(t, a)
                /\ a.fault = "none" /\ a.status = 200
                /\ Truthy(a.token) /\ Malformed(a.token))
            => /\ outcome'[t] = ReturnToken(a.token)
               /\ token' = a.token
               /\ ~TM_is_authenticated(token', buffer', now')
       /\ \A t \in Tasks :
            (Calls(t, "make_authenticated_request")
                /\ Truthy(token) /\ Malformed(token))
            => IF TruthyStr(refresh)
               THEN /\ pc'[t] = "ensure_refresh"
                    /\ HandsCall(t)
                    /\ LastCall(sent'[t]).call = "POST refresh"
                    /\ Dispatches(log'[t]) = 0
               ELSE /\ pc'[t] = "done"
                    /\ outcome'[t].kind = "raise"
                    /\ outcome'[t].err = "AuthenticationError"
                    /\ NetworkCalls(log'[t]) = 0]_vars

\* an opaque token is stored and a request has sent its refresh call before
\* any dispatch
C38_Witness ==
    \E t \in Tasks :
        /\ Req(t) /\ pc[t] = "ensure_refresh"
        /\ token = OpaqueToken
        /\ Malformed(token)
        /\ ~TM_is_authenticated(token, buffer, now)
        /\ Dispatches(log[t]) = 0

--------------------------------------------------------------------------
(* Termination of an authenticated request *)

\* request t has come to its end
RequestDone(t) == Req(t) /\ pc[t] = "done"

\* every request comes to its end
C39_Terminates == \A t \in Tasks : Req(t) ~> RequestDone(t)

\* a request makes at most two dispatches and two refresh calls
C39_Bounded ==
    \A t \in Tasks :
        Req(t) => (Dispatches(log[t]) <= 2 /\ RefreshCalls(log[t]) <= 2)

\* a request ends with a response, an AuthenticationError or an APIError
C39_Outcomes ==
    \A t \in Tasks :
        RequestDone(t) =>
            \/ outcome[t].kind = "response"
            \/ /\ outcome[t].kind = "raise"
               /\ outcome[t].err \in {"AuthenticationError", "APIError"}

\* C39: when every network call is answered by a response or a transport
\* fault, every authenticated request comes to its end; it has then made at
\* most two target dispatches and two refresh calls, and it returns a
\* response or raises AuthenticationError or APIError.
C39_RequestTerminates ==
    /\ C39_Terminates
    /\ []C39_Bounded
    /\ []C39_Outcomes

====
